------------------------------ MODULE BasicBlocks ------------------------------
(***************************************************************************)
(* The basic blocks of the class converter (classCvt/bb.c).  The code of a *)
(* method is cut at every target of a branch, a switch and an exception    *)
(* entry; targets become references to blocks, instructions may then       *)
(* change their length, and the blocks are written out again with the      *)
(* offsets that the new addresses ask for.                                 *)
(*                                                                         *)
(* An instruction is a record: op groups the opcodes that are decoded the  *)
(* same way, idx is the constant it names (0 for none), val what it holds  *)
(* in the place of one.  dests are its targets: offsets in code, addresses *)
(* in a block, and the positions of blocks in bbList once they are         *)
(* resolved; the last one of a switch is its default.                      *)
(***************************************************************************)
EXTENDS Integers, Sequences, SequencesExt, FiniteSetsExt

CONSTANTS
  Reach    \* a branch reaches from -Reach to Reach - 1: 2^15 in the code

VARIABLES
  gCode,    \* the code: its length, and the instructions by address
  bbList,   \* blocks in the order of the list
  excList,  \* exception entries: addresses, and then positions of blocks
  Q,        \* addresses at which blocks have to start
  exit      \* why the converter has given up, "no" if it has not

bbVars == <<gCode, bbList, excList, Q, exit>>

Switches == {"tableswitch", "lookupswitch"}
Branches == {"branch", "branch_w"}

-----------------------------------------------------------------------------
(* Reading and writing an instruction. *)

\* the bytes behind the opcode, by the case of bbPrvDisasm that it falls into
ExtraSz(i) ==
  CASE i.op \in {"none"} -> 0
    [] i.op \in {"ldc", "bipush"} -> 1
    [] i.op \in {"ldc_w", "ldc2_w", "ref", "new"} -> 2
    [] i.op = "local" -> IF i.wide THEN 2 ELSE 1
    [] i.op = "iinc" -> IF i.wide THEN 4 ELSE 2
    [] i.op \in {"field", "static", "invoke"} -> IF i.wide THEN 3 ELSE 2
    [] i.op = "multinewarray" -> 3
    [] i.op \in {"invokeinterface", "push_raw"} -> 4

WideHandled(i) == i.op \in {"local", "iinc", "field", "static", "invoke"}

Padding(pc) == 3 - (pc % 4)

\* what a switch holds behind its padding
TableSz(i) ==
  IF i.op = "tableswitch" THEN 12 + 4 * (Len(i.dests) - 1) ELSE 8 + 8 * (Len(i.dests) - 1)

BranchSz(i) == IF i.op = "branch" THEN 2 ELSE 4

Opcode(i) == IF i.wide THEN 2 ELSE 1

\* bbPrvInstrExport: the length of an instruction at pc
ExportLen(i, pc) ==
  Opcode(i) + CASE i.op \in Switches -> Padding(pc) + TableSz(i)
                [] i.op \in Branches -> BranchSz(i)
                [] OTHER -> i.numBytes

\* the kinds whose length does not depend on where they and their targets are
Fixed == {"none", "ldc", "bipush", "ldc_w", "ldc2_w", "ref", "new", "local", "iinc", "field",
          "static", "invoke", "multinewarray", "invokeinterface", "push_raw"}

Garbage == [op |-> "garbage", wide |-> FALSE, idx |-> 0, val |-> <<>>, dests |-> <<>>]

\* What bbPrvDisasm makes of the instruction at pc; numBytes is set for what is
\* neither a switch nor a branch.
Parsed(i, pc) ==
  [op |-> i.op, wide |-> i.wide, idx |-> i.idx, val |-> i.val,
   dests |-> [k \in DOMAIN i.dests |-> pc + i.dests[k]],
   numBytes |-> IF i.op \in Switches \cup Branches THEN 0 ELSE ExtraSz(i)]

\* One turn of its loop.
Decode(pc) ==
  IF pc \notin DOMAIN gCode.at \/ (gCode.at[pc].wide /\ ~WideHandled(gCode.at[pc])) THEN Garbage
  ELSE Parsed(gCode.at[pc], pc)

\* bbPrvDisasm: the instructions from pos on
Disasm(pos, len) ==
  LET from[pc \in 0..gCode.len] ==
        IF pc >= pos + len THEN <<>>
        ELSE IF Decode(pc) = Garbage \/ pc + ExportLen(Decode(pc), pc) > gCode.len
             THEN <<Garbage>>
             ELSE <<Decode(pc)>> \o from[pc + ExportLen(Decode(pc), pc)]
  IN  IF pos \in DOMAIN from THEN from[pos] ELSE <<>>

\* Code as a compiler or a pass leaves it: instructions one behind the other from 0 to
\* the end, with the targets that their kind has, each of them an instruction.
WellFormed(code) ==
  LET starts == DOMAIN code.at
  IN  /\ code.len \in Nat /\ starts \subseteq 0..(code.len - 1) /\ 0 \in starts
      /\ \A a \in starts :
           LET i == code.at[a]
               next == a + ExportLen(Parsed(i, a), a)
           IN  /\ i.op \in Fixed \cup Switches \cup Branches
               /\ i.wide \in BOOLEAN /\ (i.wide => WideHandled(i))
               /\ i.dests \in Seq(Int)
               /\ i.op \in Fixed => Len(i.dests) = 0
               /\ i.op \in Branches => Len(i.dests) = 1
               /\ i.op \in Switches => Len(i.dests) > 0
               /\ \A j \in DOMAIN i.dests : a + i.dests[j] \in starts
               /\ next \in starts \cup {code.len}
               /\ \A b \in starts : b <= a \/ b >= next

\* the order in which bbPrvDisasm queues targets: the default of a switch first
Targets(i) ==
  IF i.op \in Switches THEN <<Last(i.dests)>> \o Front(i.dests) ELSE i.dests

Block(pos, len) == [initialAddr |-> pos, initialLen |-> len, instrs |-> Disasm(pos, len)]

-----------------------------------------------------------------------------
(* Finding and cutting blocks. *)

FirstOf(S) == IF S = {} THEN 0 ELSE Min(S)

\* bbPrvFind, with FIND_CONTANING, FIND_CONTAINING_OR_NEXT and FIND_EXACT_ADDR
Containing(addr) ==
  FirstOf({k \in DOMAIN bbList : /\ bbList[k].initialAddr <= addr
                                 /\ bbList[k].initialAddr + bbList[k].initialLen > addr})
NextOne(addr) == FirstOf({k \in DOMAIN bbList : bbList[k].initialAddr > addr})
Exact(addr) == FirstOf({k \in DOMAIN bbList : bbList[k].initialAddr = addr})

\* the addresses of instructions that are written one after another from pc on, and
\* the address behind them
Place(instrs, pc) ==
  LET at[n \in 1..(Len(instrs) + 1)] ==
        IF n = 1 THEN pc
        ELSE LET before == at[n - 1] IN before + ExportLen(instrs[n - 1], before)
  IN  at
End(instrs, pc) == Place(instrs, pc)[Len(instrs) + 1]

\* bbTruncate: how many instructions make up newLen bytes; 0 if none do
Kept(bb, newLen) ==
  LET ends == Place(bb.instrs, bb.initialAddr)
  IN  FirstOf({n \in 1..Len(bb.instrs) : ends[n + 1] = bb.initialAddr + newLen})

bbPrvInsertAddr(addrs) == Q \o addrs

\* One address from the queue in bbPrvRun.  With nothing behind it the block goes
\* to the front of the list.  illegal is the constants that new must not create.
bbPrvRun(illegal) ==
  /\ exit = "no" /\ Q # <<>>
  /\ LET start == Head(Q)
         k == Containing(start)
         n == NextOne(start)
         bb == bbList[k]
         new == CASE k # 0 -> Block(start, bb.initialLen + bb.initialAddr - start)
                  [] k = 0 /\ n # 0 -> Block(start, bbList[n].initialAddr - start)
                  [] OTHER -> Block(start, gCode.len - start)
         cut == [bb EXCEPT !.initialLen = start - bb.initialAddr,
                           !.instrs = SubSeq(@, 1, Kept(bb, start - bb.initialAddr))]
     IN  IF k # 0 /\ bb.initialAddr = start
         THEN Q' = Tail(Q) /\ UNCHANGED <<bbList, exit>>
         ELSE IF k # 0 /\ Kept(bb, start - bb.initialAddr) = 0
         THEN exit' = "truncate" /\ UNCHANGED <<bbList, Q>>
         ELSE IF Garbage \in Range(new.instrs)
         THEN exit' = "instr" /\ UNCHANGED <<bbList, Q>>
         ELSE IF \E i \in Range(new.instrs) : i.op = "new" /\ i.idx \in illegal
         THEN exit' = "new" /\ UNCHANGED <<bbList, Q>>
         ELSE /\ bbList' = CASE k # 0 -> InsertAt([bbList EXCEPT ![k] = cut], k + 1, new)
                             [] k = 0 /\ n # 0 -> InsertAt(bbList, n, new)
                             [] OTHER -> <<new>> \o bbList
              /\ Q' = Tail(Q) \o FlattenSeq([j \in DOMAIN new.instrs |-> Targets(new.instrs[j])])
              /\ UNCHANGED exit
  /\ UNCHANGED <<gCode, excList>>

\* bbInit and bbAddExc, up to the work on the queue
bbInit(c) == gCode' = c /\ bbList' = <<>> /\ excList' = <<>> /\ Q' = <<0>>
bbAddExc(e) ==
  /\ Q' = bbPrvInsertAddr(<<e.start, e.end, e.handler>>)
  /\ excList' = Append(excList, [start |-> e.start, end |-> e.end, handler |-> e.handler])
  /\ UNCHANGED <<gCode, bbList>>

\* bbFinishLoading: targets become blocks, if each has one
Unresolved ==
  \/ \E k \in DOMAIN bbList : \E i \in Range(bbList[k].instrs) :
       \E d \in Range(i.dests) : Exact(d) = 0
  \/ \E e \in Range(excList) : \E a \in {e.start, e.end, e.handler} : Exact(a) = 0

Resolve(i) == [i EXCEPT !.dests = [j \in DOMAIN @ |-> Exact(@[j])]]

bbFinishLoading ==
  IF Unresolved
  THEN exit' = "resolution" /\ UNCHANGED <<bbList, excList>>
  ELSE /\ bbList' = [k \in DOMAIN bbList |-> [bbList[k] EXCEPT !.instrs =
                       [n \in DOMAIN @ |-> Resolve(@[n])]]]
       /\ excList' = [k \in DOMAIN excList |->
            [f \in DOMAIN excList[k] |-> Exact(excList[k][f])]]
       /\ UNCHANGED exit

InstrsOf(blocks) == FlattenSeq([k \in DOMAIN blocks |-> blocks[k].instrs])

\* bbPass: pf gives the new form of each instruction
bbPass(pf) ==
  [k \in DOMAIN bbList |-> [bbList[k] EXCEPT !.instrs = [n \in DOMAIN @ |-> pf[@[n]]]]]

-----------------------------------------------------------------------------
(* Writing the blocks. *)

\* (Mutant: the padding of a switch is that of its place in the block.)
BlockAddr_PadsFromBlock(blocks, k) ==
  LET to[n \in 1..k] == IF n = 1 THEN 0 ELSE to[n - 1] + End(blocks[n - 1].instrs, 0)
  IN  to[k]

\* bbFinalizeChanges: the address of block k
BlockAddr(blocks, k) ==
  LET to[n \in 1..k] == IF n = 1 THEN 0 ELSE End(blocks[n - 1].instrs, to[n - 1])
  IN  to[k]

\* the offsets from the instructions to their blocks
Finalized(blocks) ==
  LET instrs == InstrsOf(blocks)
      at == Place(instrs, 0)
  IN  [n \in DOMAIN instrs |-> [instrs[n] EXCEPT !.dests =
         [j \in DOMAIN @ |-> BlockAddr(blocks, @[j]) - at[n]]]]

\* offsett impossible in 16 bits
OutOfReach(blocks) ==
  \E i \in Range(Finalized(blocks)) :
    i.op = "branch" /\ (i.dests[1] < -Reach \/ i.dests[1] >= Reach)

\* bbExport
bbExport(blocks) ==
  LET instrs == Finalized(blocks)
      at == Place(instrs, 0)
  IN  [len |-> End(instrs, 0),
       at |-> [pc \in {at[n] : n \in DOMAIN instrs} |->
                 LET i == instrs[CHOOSE n \in DOMAIN instrs : at[n] = pc]
                 IN  [op |-> i.op, wide |-> i.wide, idx |-> i.idx, val |-> i.val,
                      dests |-> i.dests]]]

\* bbGetExc
bbGetExc(blocks, k) == [f \in DOMAIN excList[k] |-> BlockAddr(blocks, excList[k][f])]

\* bbDestroy
bbDestroy == bbList' = <<>> /\ excList' = <<>>
=============================================================================
