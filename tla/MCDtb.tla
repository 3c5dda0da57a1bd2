------------------------------- MODULE MCDtb --------------------------------
(***************************************************************************)
(* Constants for model checking Dtb.  Names are short, and chosen so that  *)
(* one is the beginning of another and that, with its NUL, one fills a     *)
(* word.  One value reads as FDT_END_NODE.                                 *)
(***************************************************************************)
EXTENDS Dtb

Chos == <<3, 8>>
Bargs == <<2, 1>>
Prefix == <<11, 12>>
Suites == {<<6>>, <<6, 7>>, <<6, 7, 8>>}

(* "ba", with "a" inside it, and "b" *)
Block == <<2, 1, 0, 2, 0>>

Prop(o, v) == [off |-> o, value |-> v]
Args == {Prefix \o <<6, 7, 0>>, Prefix \o <<6, 0>>, Prefix \o <<9, 0>>, <<11, 0>>}
PropLists == {<<>>, <<Prop(3, <<0, 0, 0, 2>>)>>}
             \cup {<<Prop(1, <<9>>), Prop(0, a)>> : a \in Args}
             \cup {<<Prop(0, <<0>>), Prop(0, <<5, 0>>)>>}

Root == {[depth |-> 0, name |-> <<>>, props |-> p] : p \in PropLists}
Node(d) == [depth : {d}, name : {Chos, <<3>>, <<3, 8, 1>>, <<3, 8, 1, 1>>}, props : PropLists]
AllTrees ==
  {<<r, a>> : r \in Root, a \in Node(1)}
  \cup {<<r, a, b>> : r \in {[depth |-> 0, name |-> <<>>, props |-> <<>>]},
                      a \in Node(1), b \in Node(1) \cup Node(2)}
HasChosen(t) == \E k \in 1..Len(t) : t[k].name = Chos
SmallTrees == {t \in AllTrees : Len(t) = 2}
ChosenSmall == {t \in SmallTrees : HasChosen(t)}
=============================================================================
