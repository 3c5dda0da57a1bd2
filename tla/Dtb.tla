-------------------------------- MODULE Dtb ---------------------------------
(***************************************************************************)
(* The device tree parser, src/dtb.c, and its one client, mmode_startup()  *)
(* of src/ktest/startup.c, which looks for the property "bootargs" of the  *)
(* node "chosen"; then kmain() of the test kernel, which copies what       *)
(* follows "ktest_run=" in it to ktest_arg and runs the suites it names.   *)
(*                                                                         *)
(* The tree is given twice: flattened, as big-endian bytes in memory,      *)
(* which is all the parser sees, and as the list of its nodes in the order *)
(* of the flattened tree, from which the right answers are defined.        *)
(***************************************************************************)
EXTENDS Strings, SequencesExt

CONSTANTS
  Trees,         \* sequences of [depth, name, props], props of [off, value]
  Nops,          \* numbers of FDT_NOPs after properties and after nodes
  Shapes,        \* "whole", "NOP first", "END_NODE missing"
  StringsBlock,  \* the names of properties, bytes
  CHOSEN, BOOTARGS, PREFIX,    \* "chosen", "bootargs" and "ktest_run="
  SUITES,        \* names of the test suites
  SIZE           \* KTEST_ARG_MAX_SIZE

FDT_BEGIN_NODE == 1
FDT_END_NODE   == 2
FDT_PROP       == 3
FDT_NOP        == 4
FDT_END        == 5

-----------------------------------------------------------------------------
(* External: the flattened device tree that QEMU hands over. *)

BE(n) == <<0, 0, n \div 256, n % 256>>
Times(n, s) == FlattenSeq([k \in 1..n |-> s])

(* Filled up with NULs to whole words. *)
Words(s) == s \o Times((4 - (Len(s) % 4)) % 4, <<0>>)

PropBytes(p) == BE(FDT_PROP) \o BE(Len(p.value)) \o BE(p.off) \o Words(p.value)

(* A node, and the ends of those that are complete with it. *)
NodeBytes(t, n, k) ==
  LET next == IF k < Len(t) THEN t[k + 1].depth ELSE 0
  IN  BE(FDT_BEGIN_NODE) \o Words(Append(t[k].name, 0))
      \o FlattenSeq([j \in 1..Len(t[k].props) |-> PropBytes(t[k].props[j])])
      \o Times(n, BE(FDT_NOP))
      \o Times(t[k].depth + 1 - next, BE(FDT_END_NODE) \o Times(n, BE(FDT_NOP)))

Flattened(t, n, sh) ==
  LET nodes   == FlattenSeq([k \in 1..Len(t) |-> NodeBytes(t, n, k)])
      structs == (IF sh = "NOP first" THEN BE(FDT_NOP) ELSE <<>>)
                 \o SubSeq(nodes, 1, Len(nodes) - (IF sh = "END_NODE missing"
                                                   THEN 4 + 4 * n ELSE 0))
                 \o BE(FDT_END)
  IN  BE(0) \o BE(0) \o BE(40) \o BE(40 + Len(structs)) \o Times(6, BE(0))
      \o structs \o StringsBlock

-----------------------------------------------------------------------------
VARIABLES
  tree, shape,
  mem,        \* the flattened tree, from address 1 on; address 0 is NULL
  pc,         \* the loop or the call that runs
  ptr,        \* ptr of the call that runs
  depth,      \* calls of dtb_match_node_name_rec() inside each other, less 1
  node,       \* prop_start of the node that was found, or NULL
  bootargs,   \* the string it points to
  ktest_arg,  \* the buffer, and the byte that comes after it
  ran         \* the suites that ktest_suite_run() was called with

vars == <<tree, shape, mem, pc, ptr, depth, node, bootargs, ktest_arg, ran>>

NULL == 0
kernel_dtb == 1

Init ==
  /\ tree \in Trees /\ shape \in Shapes
  /\ \E n \in Nops : mem = Flattened(tree, n, shape)
  /\ pc = "match_node_name" /\ ptr = NULL /\ depth = 0 /\ node = NULL
  /\ bootargs = <<>> /\ ran = {}
  /\ ktest_arg = [k \in 0..SIZE |-> IF k < SIZE THEN 0 ELSE 1]

(* A big-endian word, as a number: reversed, its bytes are little-endian. *)
be_to_le(a) == mem[a + 3] + 256 * mem[a + 2]     \* numbers here are < 2^16

strlen(a) == CHOOSE n \in 0..Len(mem) :
               mem[a + n] = 0 /\ \A j \in 0..(n - 1) : mem[a + j] # 0
CString(a) == SubSeq(mem, a, a + strlen(a) - 1)

DTB_STRUCTS == kernel_dtb + be_to_le(kernel_dtb + 8)
DTB_STRINGS == kernel_dtb + be_to_le(kernel_dtb + 12)

(* Mutant: the NUL that ends a name is not counted. *)
NameBytes_NoNul(a) == 4 * ((strlen(a) + 3) \div 4)

(* Bytes that a name takes up, and the words after a property's header. *)
NameBytes(a) == 4 * ((strlen(a) + 1 + 3) \div 4)
ValueBytes(len) == 4 * ((len + 3) \div 4)

(* FDT_UNKNOWN is any other word. *)
dtb_read_struct_token(a) == be_to_le(a)

Token(t) == ptr # NULL /\ dtb_read_struct_token(ptr) = t
NoToken(ts) == ptr # NULL /\ dtb_read_struct_token(ptr) \notin ts

NodeStep == UNCHANGED <<tree, shape, mem, bootargs, ktest_arg, ran>>

dtb_match_node_name ==
  /\ pc = "match_node_name" /\ pc' = "enter"
  /\ ptr' = DTB_STRUCTS
  /\ NodeStep /\ UNCHANGED <<depth, node>>

(* dtb_match_node_name_rec(): no node here; the node that is looked for,   *)
(* and all calls return; or another one.                                   *)
Enter ==
  /\ pc = "enter"
  /\ \/ NoToken({FDT_BEGIN_NODE}) /\ pc' = "return" /\ UNCHANGED <<ptr, node>>
     \/ /\ Token(FDT_BEGIN_NODE) /\ strcmp(CString(ptr + 4), CHOSEN) = 0
        /\ node' = ptr + 4 + NameBytes(ptr + 4)
        /\ pc' = "match_property" /\ UNCHANGED ptr
     \/ /\ Token(FDT_BEGIN_NODE) /\ strcmp(CString(ptr + 4), CHOSEN) # 0
        /\ ptr' = ptr + 4 + NameBytes(ptr + 4)
        /\ pc' = "props" /\ UNCHANGED node
  /\ NodeStep /\ UNCHANGED depth

(* Mutant: the loop stays at an FDT_NOP. *)
SkipNop_Not == ptr

SkipNop == ptr + 4

SkipProp == ptr + 12 + ValueBytes(be_to_le(ptr + 4))

Props ==
  /\ pc = "props"
  /\ \/ Token(FDT_PROP) /\ ptr' = SkipProp /\ UNCHANGED pc
     \/ Token(FDT_NOP) /\ ptr' = SkipNop /\ UNCHANGED pc
     \/ NoToken({FDT_PROP, FDT_NOP}) /\ pc' = "children" /\ UNCHANGED ptr
  /\ NodeStep /\ UNCHANGED <<depth, node>>

Children ==
  /\ pc = "children"
  /\ \/ Token(FDT_NOP) /\ ptr' = SkipNop /\ UNCHANGED <<pc, depth>>
     \/ Token(FDT_BEGIN_NODE) /\ pc' = "enter" /\ depth' = depth + 1 /\ UNCHANGED ptr
     \/ Token(FDT_END_NODE) /\ ptr' = ptr + 4 /\ pc' = "return" /\ UNCHANGED depth
     \/ /\ NoToken({FDT_NOP, FDT_BEGIN_NODE, FDT_END_NODE})
        /\ pc' = "return" /\ UNCHANGED <<ptr, depth>>
  /\ NodeStep /\ UNCHANGED node

(* A call returns without a match: its caller goes on at its ptr. *)
Return ==
  /\ pc = "return"
  /\ \/ depth > 0 /\ depth' = depth - 1 /\ pc' = "children"
     \/ depth = 0 /\ pc' = "match_property" /\ UNCHANGED depth
  /\ NodeStep /\ UNCHANGED <<ptr, node>>

dtb_node_match_property ==
  /\ pc = "match_property" /\ pc' = "property"
  /\ ptr' = node
  /\ NodeStep /\ UNCHANGED <<depth, node>>

(* mmode_startup() takes the value of the property, or "". *)
Property ==
  /\ pc = "property"
  /\ \/ /\ Token(FDT_PROP) /\ ptr' = SkipProp
        /\ IF strcmp(CString(DTB_STRINGS + be_to_le(ptr + 8)), BOOTARGS) = 0
           THEN bootargs' = CString(ptr + 12) /\ pc' = "kmain"
           ELSE UNCHANGED <<bootargs, pc>>
     \/ Token(FDT_NOP) /\ ptr' = SkipNop /\ UNCHANGED <<bootargs, pc>>
     \/ /\ NoToken({FDT_PROP, FDT_NOP})
        /\ bootargs' = <<>> /\ pc' = "kmain" /\ UNCHANGED ptr
     \/ ptr = NULL /\ pc' = "fault" /\ UNCHANGED <<ptr, bootargs>>
  /\ UNCHANGED <<tree, shape, mem, depth, node, ktest_arg, ran>>

parse_bootarg_ktest ==
  /\ pc = "kmain" /\ pc' = "suites"
  /\ ktest_arg' = IF strncmp(bootargs, PREFIX, Len(PREFIX)) # 0
                  THEN [ktest_arg EXCEPT ![0] = 0]
                  ELSE strncpy(ktest_arg, SubSeq(bootargs, Len(PREFIX) + 1, Len(bootargs)), SIZE)
  /\ UNCHANGED <<tree, shape, mem, ptr, depth, node, bootargs, ran>>

Arg == LET n == CHOOSE n \in 0..SIZE :
                  (n = SIZE \/ ktest_arg[n] = 0) /\ \A j \in 0..(n - 1) : ktest_arg[j] # 0
       IN  [j \in 1..n |-> ktest_arg[j - 1]]

kmain ==
  /\ pc = "suites" /\ pc' = "done"
  /\ ran' = {s \in SUITES : Arg = <<>> \/ strcmp(Arg, s) = 0}
  /\ UNCHANGED <<tree, shape, mem, ptr, depth, node, bootargs, ktest_arg>>

Next ==
  \/ dtb_match_node_name \/ Enter \/ Props \/ Children \/ Return
  \/ dtb_node_match_property \/ Property \/ parse_bootarg_ktest \/ kmain

Spec == Init /\ [][Next]_vars
FairSpec == Spec /\ WF_vars(Next)

-----------------------------------------------------------------------------
(* The answer, from the list of nodes: the first node with the name, and   *)
(* the first of its own properties with the name.                          *)
Named(k) == tree[k].name = CHOSEN
Chosen == {k \in 1..Len(tree) : Named(k) /\ \A j \in 1..(k - 1) : ~Named(j)}
PropName(p) == SubSeq(StringsBlock, p.off + 1,
                      (CHOOSE e \in (p.off + 1)..Len(StringsBlock) :
                         StringsBlock[e] = 0 /\ \A j \in (p.off + 1)..(e - 1) :
                                                  StringsBlock[j] # 0) - 1)
Asked(p) == PropName(p) = BOOTARGS
Answers ==
  UNION {{tree[k].props[j].value : j \in {j \in DOMAIN tree[k].props :
            Asked(tree[k].props[j]) /\ \A i \in 1..(j - 1) : ~Asked(tree[k].props[i])}} :
         k \in Chosen}

(* The bytes of the tree mean to the parser what they mean: whatever other *)
(* nodes, properties, NOPs and values there are, also values that look     *)
(* like tokens, and names that begin alike, the boot arguments are the     *)
(* value of bootargs of the first node chosen, or "" if it has none, and   *)
(* if there is such a node it is found.                                    *)
BootargsRight ==
  /\ pc \in {"kmain", "suites", "done"} =>
       IF Answers = {} THEN bootargs = <<>> ELSE Append(bootargs, 0) \in Answers
  /\ pc = "fault" => Chosen = {} \/ shape = "NOP first"

(* Suites are chosen by their whole name: exactly one is run if the boot   *)
(* arguments are ktest_run= and its name, and all of them without a name.  *)
SuitesRight ==
  pc = "done" =>
    ran = IF \E s \in SUITES : bootargs = PREFIX \o s
          THEN {s \in SUITES : bootargs = PREFIX \o s}
          ELSE IF Len(PREFIX) < Len(bootargs) /\ SubSeq(bootargs, 1, Len(PREFIX)) = PREFIX
          THEN {} ELSE SUITES

(* The search ends, on every tree with the node, and the suites are run.   *)
(* (The parser does not skip an FDT_NOP before the root.)                  *)
SuitesRun == Chosen # {} /\ shape # "NOP first" => <>(pc = "done")

(* mmode_startup() goes on with "" when the tree has no boot arguments. *)
NeverReadsNull == pc # "fault"

(* strncpy(buf, ..., size) does not write outside buf. *)
InsideBuffer == ktest_arg[SIZE] = 1
=============================================================================
