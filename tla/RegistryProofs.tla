--------------------------- MODULE RegistryProofs ---------------------------
(***************************************************************************)
(* The registry of control namespaces, for any threads, names and ids: its *)
(* names stay unambiguous, pointers stay stable and point to what was      *)
(* asked for, handlers only run for registered commands, and the loop of   *)
(* register_command, once in it, is never left.                            *)
(***************************************************************************)
EXTENDS Registry, SequenceTheorems, WellFoundedInduction, TLAPS

ThreadPc  == {"idle", "nslock", "nsloop", "nsout", "cmdlock", "cmdloop"}
ControlPc == {"idle", "resolve", "handle", "handler", "unlock"}

Arg == [name : Seq(Nat), ns : 0..Len(entry), id : Nat, cur : 0..Len(entry)]

\* Where a thread may be, and who holds the mutex there.
LockInv ==
  /\ \A t \in Thread : pc[t] \in ThreadPc /\ (pc[t] \in {"nsloop", "cmdloop"} => lock = t)
  /\ pc[Control] \in ControlPc /\ (pc[Control] \in {"handler", "unlock"} => lock = Control)

\* What the locals of a call say of the list: the walk of register_namespace found
\* no match yet, its new entry follows the one it stopped at, and the namespaces
\* of commands and messages are entries.
LocalInv ==
  /\ \A t \in Thread :
       /\ pc[t] = "nsloop" =>
            /\ arg[t].cur \in 1..Len(entry)
            /\ \A j \in 1..(arg[t].cur - 1) : ~Match(arg[t].name, entry[j].name)
       /\ pc[t] = "nsout" =>
            /\ arg[t].cur \in 1..(Len(entry) - 1)
            /\ entry[arg[t].cur + 1].name = arg[t].name
       /\ pc[t] \in {"cmdlock", "cmdloop"} => arg[t].ns \in 2..Len(entry)
  /\ pc[Control] \in {"handle", "handler", "unlock"} =>
       /\ arg[Control].ns \in 1..Len(entry)
       /\ Match(arg[Control].name, entry[arg[Control].ns].name)
  /\ pc[Control] = "handler" =>
       \E i \in 1..Len(Commands(Control)) : Commands(Control)[i] = arg[Control].id

\* Returned and handled namespaces are entries; no user thread gets the builtin one.
PointerInv ==
  /\ \A k \in known : k.ns \in 2..Len(entry)
  /\ \A h \in handled : h.ns \in 1..Len(entry)

IInv == /\ TypeOK /\ LockInv /\ LocalInv /\ PointerInv /\ NamesUnambiguous
        /\ OwnNamespace /\ CommandsUnique /\ HandledRegistered

\* Whether two names match does not depend on their order.
LEMMA MatchSymmetric ==
  ASSUME NEW a \in Seq(Nat), NEW b \in Seq(Nat)
  PROVE  Match(a, b) <=> Match(b, a)
<1>1. Min2(Len(a), Len(b)) = Min2(Len(b), Len(a))
  BY DEF Min2
<1> QED
  BY <1>1 DEF Match

\* A lookup gives no entry or one that the name matches.
LEMMA FirstMatchType ==
  ASSUME NEW n, NEW names, Len(names) \in Nat, FirstMatch(n, names) # 0
  PROVE  FirstMatch(n, names) \in 1..Len(names) /\ Match(n, names[FirstMatch(n, names)])
<1> DEFINE M == Matches(n, names)
<1>1. M \subseteq Nat
  BY DEF Matches
<1>2. M # {}
  BY DEF FirstMatch
<1> HIDE DEF M
<1> DEFINE Less == {ss \in Nat \X Nat : ss[1] < ss[2]}
<1>3. IsWellFoundedOn(Less, Nat)
  BY NatLessThanWellFounded DEF OpToRel
<1> HIDE DEF Less
<1>4. PICK i \in M : \A j \in M : ~(<<j, i>> \in Less)
  BY <1>1, <1>2, <1>3, WFMin
<1>5. ASSUME NEW j \in M
      PROVE  i <= j
  <2>1. i \in Nat /\ j \in Nat /\ ~(<<j, i>> \in Less)
    BY <1>1, <1>4
  <2>2. j < i => <<j, i>> \in Less
    BY <2>1 DEF Less
  <2> QED
    BY <2>1, <2>2
<1>6. (CHOOSE k \in M : \A j \in M : k <= j) \in M
  BY <1>4, <1>5
<1>7. FirstMatch(n, names) \in M
  BY <1>2, <1>6 DEF FirstMatch, M
<1> QED
  BY <1>7 DEF M, Matches

\* The fields of an entry.
LEMMA EntryType ==
  ASSUME TypeOK, NEW i \in 1..Len(entry)
  PROVE  entry[i] \in Entry /\ entry[i].name \in Seq(Nat) /\ entry[i].cmds \in Seq(Nat)
<1>1. entry[i] \in Entry
  BY DEF TypeOK
<1> QED
  BY <1>1 DEF Entry

\* The elements of a sequence of one after an append.
LEMMA AppendOne ==
  ASSUME NEW s \in Seq(Nat), NEW x \in Nat, Len(s) = 1
  PROVE  Append(s, x)[1] = s[1] /\ Append(s, x)[2] = x
<1>1. Append(s, x)[1] = s[1]
  OBVIOUS
<1>2. Append(s, x)[Len(s) + 1] = x
  BY AppendProperties
<1>3. Len(s) + 1 = 2
  OBVIOUS
<1> QED
  BY <1>1, <1>2, <1>3

\* A call that returns leaves well-typed locals behind.
LEMMA ReturnType ==
  ASSUME TypeOK, NEW t \in All, pc' = [pc EXCEPT ![t] = "idle"],
         arg' = [arg EXCEPT ![t] = NoArg], Len(entry') = Len(entry)
  PROVE  /\ pc' \in [All -> {"idle", "nslock", "nsloop", "nsout", "cmdlock", "cmdloop",
                            "resolve", "handle", "handler", "unlock"}]
         /\ arg' \in [All -> [name : Seq(Nat), ns : 0..Len(entry'), id : Nat,
                             cur : 0..Len(entry')]]
<1>1. NoArg \in Arg
  <2>1. Len(entry) \in Nat
    BY DEF TypeOK
  <2> QED
    BY <2>1 DEF NoArg, Arg
<1>2. arg' \in [All -> Arg]
  <2>1. arg \in [All -> Arg]
    BY DEF TypeOK, Arg
  <2> HIDE DEF TypeOK
  <2> QED
    BY <1>1, <2>1
<1>3. Arg = [name : Seq(Nat), ns : 0..Len(entry'), id : Nat, cur : 0..Len(entry')]
  BY DEF Arg
<1>4. pc' \in [All -> {"idle", "nslock", "nsloop", "nsout", "cmdlock", "cmdloop",
                      "resolve", "handle", "handler", "unlock"}]
  BY DEF TypeOK
<1> QED
  BY <1>2, <1>3, <1>4

\* What appending an entry does to the list.
LEMMA EntryAppended ==
  ASSUME TypeOK, NEW n \in Seq(Nat),
         entry' = Append(entry, [name |-> n, cmds |-> <<>>])
  PROVE  /\ entry' \in Seq(Entry) /\ Len(entry) \in Nat /\ Len(entry') = Len(entry) + 1
         /\ \A i \in 1..Len(entry) : entry'[i] = entry[i]
         /\ entry'[Len(entry) + 1].name = n /\ entry'[Len(entry) + 1].cmds = <<>>
<1>1. [name |-> n, cmds |-> <<>>] \in Entry
  BY DEF Entry
<1>2. entry \in Seq(Entry) /\ Len(entry) \in Nat
  BY DEF TypeOK
<1> QED
  BY <1>1, <1>2

\* What appending a command to namespace e does to the list.
LEMMA CommandAppended ==
  ASSUME TypeOK, NEW e \in 1..Len(entry), NEW i \in Nat,
         entry' = [entry EXCEPT ![e].cmds = Append(@, i)]
  PROVE  /\ entry' \in Seq(Entry) /\ Len(entry) \in Nat /\ Len(entry') = Len(entry)
         /\ \A j \in 1..Len(entry) : entry'[j].name = entry[j].name
         /\ \A j \in 1..Len(entry) : j # e => entry'[j] = entry[j]
         /\ entry[e].cmds \in Seq(Nat)
         /\ entry'[e].cmds = Append(entry[e].cmds, i)
<1>1. entry \in Seq(Entry) /\ Len(entry) \in Nat /\ entry[e] \in Entry
  BY DEF TypeOK
<1>2. entry[e].cmds \in Seq(Nat) /\ Append(entry[e].cmds, i) \in Seq(Nat)
  BY <1>1 DEF Entry
<1>3. [entry[e] EXCEPT !.cmds = Append(entry[e].cmds, i)] \in Entry
  BY <1>1, <1>2 DEF Entry
<1>4. entry' = [entry EXCEPT ![e] = [entry[e] EXCEPT !.cmds = Append(entry[e].cmds, i)]]
  BY <1>1
<1>5. entry' \in Seq(Entry) /\ Len(entry') = Len(entry)
  BY <1>1, <1>3, <1>4
<1>6. \A j \in 1..Len(entry) : j # e => entry'[j] = entry[j]
  BY <1>1, <1>4
<1>7. entry'[e].cmds = Append(entry[e].cmds, i) /\ entry'[e].name = entry[e].name
  BY <1>1, <1>4 DEF Entry
<1> QED
  BY <1>1, <1>2, <1>5, <1>6, <1>7

\* The initial states satisfy the inductive invariant.
LEMMA InitIInv == Init => IInv
<1> SUFFICES ASSUME Init PROVE IInv
  OBVIOUS
<1>1. entry \in Seq(Entry) /\ Len(entry) = 1
  BY NameAssumption, BuiltinAssumption DEF Init, Entry
<1>2. TypeOK
  BY <1>1 DEF Init, TypeOK, All, NoArg
<1>3. LockInv /\ LocalInv /\ PointerInv
  BY <1>1 DEF Init, LockInv, LocalInv, PointerInv, ThreadPc, ControlPc, All
<1>4. NamesUnambiguous /\ CommandsUnique
  BY <1>1 DEF NamesUnambiguous, CommandsUnique
<1>5. OwnNamespace /\ HandledRegistered
  BY DEF Init, OwnNamespace, HandledRegistered
<1> QED
  BY <1>2, <1>3, <1>4, <1>5 DEF IInv

\* A step that leaves the list and the histories alone keeps what is said of them.
LEMMA ListKept ==
  ASSUME IInv, UNCHANGED <<entry, known, handled>>
  PROVE  /\ PointerInv' /\ NamesUnambiguous' /\ OwnNamespace' /\ CommandsUnique'
         /\ HandledRegistered'
  BY DEF IInv, PointerInv, NamesUnambiguous, OwnNamespace, CommandsUnique, HandledRegistered

\* A call starts: only the place and the arguments of the caller change.
LEMMA CallStep ==
  ASSUME IInv, NEW t \in All, NEW l, NEW a \in Arg,
         Call(t, l, a), UNCHANGED <<entry, lock, known, handled>>,
         \/ t \in Thread /\ l = "nslock"
         \/ t \in Thread /\ l = "cmdlock" /\ a.ns \in 2..Len(entry)
         \/ t = Control /\ l = "resolve"
  PROVE  IInv'
<1> USE DEF IInv
<1>1. /\ pc[t] = "idle" /\ pc' = [pc EXCEPT ![t] = l] /\ arg' = [arg EXCEPT ![t] = a]
      /\ calls' = [calls EXCEPT ![t] = @ + 1]
  BY DEF Call, Goto
<1>2. TypeOK'
  <2>1. arg' \in [All -> Arg]
    BY <1>1 DEF TypeOK, Arg
  <2>2. calls' \in [All -> Nat]
    BY <1>1 DEF TypeOK
  <2> QED
    BY <1>1, <2>1, <2>2 DEF TypeOK, Arg
<1>3. LockInv'
  BY <1>1, ThreadAssumption DEF TypeOK, LockInv, ThreadPc, ControlPc, All
<1>4. LocalInv'
  BY <1>1, ThreadAssumption DEF TypeOK, LocalInv, Commands, All
<1> QED
  BY <1>2, <1>3, <1>4, ListKept

\* The three calls.
LEMMA CallIInv ==
  ASSUME IInv
  PROVE  /\ \A t \in Thread, n \in Name : RegisterNamespace(t, n) => IInv'
         /\ \A t \in Thread, k \in known, i \in Id : RegisterCommand(t, k, i) => IInv'
         /\ \A n \in Name \cup {BuiltinName}, i \in Id : ReceiveCommand(n, i) => IInv'
<1>1. Len(entry) \in Nat /\ 0 \in 0..Len(entry)
  BY DEF IInv, TypeOK
<1>2. ASSUME NEW t \in Thread, NEW n \in Name, RegisterNamespace(t, n)
      PROVE  IInv'
  <2>1. [NoArg EXCEPT !.name = n] \in Arg
    BY <1>1, NameAssumption DEF NoArg, Arg
  <2> QED
    BY <1>2, <2>1, CallStep DEF RegisterNamespace, All
<1>3. ASSUME NEW t \in Thread, NEW k \in known, NEW i \in Id, RegisterCommand(t, k, i)
      PROVE  IInv'
  <2> DEFINE a == [name |-> <<>>, ns |-> k.ns, id |-> i, cur |-> 0]
  <2>1. k.ns \in 2..Len(entry)
    BY DEF IInv, PointerInv
  <2>2. k.ns \in 0..Len(entry) /\ i \in Nat
    BY <2>1, <1>1, BuiltinAssumption
  <2>3. a \in Arg /\ a.ns \in 2..Len(entry)
    BY <1>1, <2>1, <2>2 DEF Arg
  <2>4. Call(t, "cmdlock", a) /\ UNCHANGED <<entry, lock, known, handled>>
    BY <1>3 DEF RegisterCommand
  <2> QED
    BY <2>3, <2>4, CallStep DEF All
<1>4. ASSUME NEW n \in Name \cup {BuiltinName}, NEW i \in Id, ReceiveCommand(n, i)
      PROVE  IInv'
  <2> DEFINE a == [name |-> n, ns |-> 0, id |-> i, cur |-> 0]
  <2>1. n \in Seq(Nat) /\ i \in Nat
    BY NameAssumption, BuiltinAssumption
  <2>2. a \in Arg
    BY <1>1, <2>1 DEF Arg
  <2>3. Call(Control, "resolve", a) /\ UNCHANGED <<entry, lock, known, handled>>
    BY <1>4 DEF ReceiveCommand
  <2> QED
    BY <2>2, <2>3, CallStep DEF All
<1> QED
  BY <1>2, <1>3, <1>4

\* A user thread takes the mutex, walks or returns; the list stays as it is.
LEMMA WalkIInv ==
  ASSUME IInv, NEW t \in Thread,
         NsLock(t) \/ NsExists(t) \/ NsNext(t) \/ CmdLock(t) \/ CmdExists(t)
  PROVE  IInv'
<1> USE DEF IInv
<1>1. UNCHANGED <<entry, known, handled, calls>>
  BY DEF NsLock, NsExists, NsNext, CmdLock, CmdExists
<1>2. t \in All /\ Len(entry) \in Nat /\ Len(entry) > 0
  BY DEF All, TypeOK
<1>3. CASE NsLock(t)
  <2>1. TypeOK'
    <3>1. arg[t] \in Arg /\ 1 \in 0..Len(entry)
      BY <1>2 DEF TypeOK, Arg
    <3>2. [arg[t] EXCEPT !.cur = 1] \in Arg
      BY <3>1 DEF Arg
    <3>3. arg' = [arg EXCEPT ![t] = [arg[t] EXCEPT !.cur = 1]]
      BY <1>3 DEF NsLock
    <3>4. arg' \in [All -> Arg]
      BY <1>2, <3>2, <3>3 DEF TypeOK, Arg
    <3> QED
      BY <1>1, <1>2, <1>3, <3>4 DEF NsLock, Lock, Goto, TypeOK, Arg
  <2> USE <1>3 DEF NsLock, Lock, Goto
  <2>2. LockInv'
    <3>1. lock = Nobody /\ lock' = t /\ pc' = [pc EXCEPT ![t] = "nsloop"]
      OBVIOUS
    <3>2. pc'[Control] = pc[Control] /\ pc[Control] \notin {"handler", "unlock"}
      BY <1>2, <3>1, ThreadAssumption DEF TypeOK, LockInv, All
    <3>3. \A u \in Thread : pc'[u] = IF u = t THEN "nsloop" ELSE pc[u]
      BY <1>2, <3>1 DEF TypeOK, All
    <3>4. \A u \in Thread : pc[u] \notin {"nsloop", "cmdloop"}
      BY <3>1, ThreadAssumption DEF LockInv
    <3> QED
      BY <3>1, <3>2, <3>3, <3>4 DEF LockInv, ThreadPc
  <2>3. LocalInv'
    <3>1. /\ arg' = [arg EXCEPT ![t].cur = 1] /\ pc' = [pc EXCEPT ![t] = "nsloop"]
          /\ entry' = entry /\ Len(entry) \in Nat /\ Len(entry) > 0
      BY <1>2
    <3>2. /\ pc'[Control] = pc[Control] /\ arg'[Control] = arg[Control]
          /\ \A u \in Thread : u # t => pc'[u] = pc[u] /\ arg'[u] = arg[u]
          /\ pc'[t] = "nsloop" /\ arg'[t].cur = 1
      BY <1>2, <3>1, ThreadAssumption DEF TypeOK, All
    <3>3. Commands(Control)' = Commands(Control)
      BY <3>1, <3>2 DEF Commands
    <3>4. ASSUME NEW u \in Thread
          PROVE  /\ pc'[u] = "nsloop" =>
                      /\ arg'[u].cur \in 1..Len(entry')
                      /\ \A j \in 1..(arg'[u].cur - 1) : ~Match(arg'[u].name, entry'[j].name)
                 /\ pc'[u] = "nsout" =>
                      /\ arg'[u].cur \in 1..(Len(entry') - 1)
                      /\ entry'[arg'[u].cur + 1].name = arg'[u].name
                 /\ pc'[u] \in {"cmdlock", "cmdloop"} => arg'[u].ns \in 2..Len(entry')
      <4>1. CASE u = t
        BY <3>1, <3>2, <4>1
      <4>2. CASE u # t
        BY <3>1, <3>2, <4>2 DEF LocalInv
      <4> QED
        BY <4>1, <4>2
    <3>5. /\ pc'[Control] \in {"handle", "handler", "unlock"} =>
               /\ arg'[Control].ns \in 1..Len(entry')
               /\ Match(arg'[Control].name, entry'[arg'[Control].ns].name)
          /\ pc'[Control] = "handler" =>
               \E i \in 1..Len(Commands(Control)') : Commands(Control)'[i] = arg'[Control].id
      BY <3>1, <3>2, <3>3 DEF LocalInv
    <3> QED
      BY <3>4, <3>5 DEF LocalInv
  <2> QED
    BY <1>1, <2>1, <2>2, <2>3, ListKept
<1>4. CASE NsExists(t) \/ CmdExists(t)
  <2>1. lock = t /\ lock' = Nobody /\ Return(t)
    BY <1>4 DEF NsExists, CmdExists, Unlock, LockInv
  <2> USE DEF Return, Goto
  <2>2. TypeOK'
    BY <1>1, <1>2, <2>1 DEF TypeOK, NoArg
  <2>3. LockInv'
    BY <1>1, <1>2, <2>1, ThreadAssumption DEF TypeOK, LockInv, ThreadPc, ControlPc, All
  <2>4. LocalInv'
    BY <1>1, <1>2, <2>1, ThreadAssumption DEF TypeOK, LocalInv, Commands, All
  <2> QED
    BY <1>1, <2>2, <2>3, <2>4, ListKept
<1>5. CASE NsNext(t)
  <2> USE <1>5 DEF NsNext
  <2>1. TypeOK'
    <3>1. arg[t] \in Arg /\ arg[t].cur + 1 \in 0..Len(entry)
      BY <1>2 DEF TypeOK, Arg
    <3>2. [arg[t] EXCEPT !.cur = arg[t].cur + 1] \in Arg
      BY <3>1 DEF Arg
    <3>3. arg' = [arg EXCEPT ![t] = [arg[t] EXCEPT !.cur = arg[t].cur + 1]]
      BY <1>2 DEF TypeOK
    <3>4. arg' \in [All -> Arg]
      BY <1>2, <3>2, <3>3 DEF TypeOK, Arg
    <3> QED
      BY <1>1, <1>2, <3>4 DEF TypeOK, Arg
  <2>2. LockInv'
    BY <1>1 DEF LockInv
  <2>3. LocalInv'
    <3>1. /\ arg[t].cur \in 1..Len(entry) /\ arg[t].cur < Len(entry)
          /\ \A j \in 1..(arg[t].cur - 1) : ~Match(arg[t].name, entry[j].name)
          /\ ~Match(arg[t].name, entry[arg[t].cur].name)
      BY DEF LocalInv
    <3>2. arg'[t].cur = arg[t].cur + 1 /\ arg'[t].name = arg[t].name /\ pc' = pc
      BY <1>2 DEF TypeOK
    <3>3. \A u \in All : u # t => arg'[u] = arg[u]
      BY <1>2 DEF TypeOK
    <3>4. /\ arg'[t].cur \in 1..Len(entry)
          /\ \A j \in 1..(arg'[t].cur - 1) : ~Match(arg'[t].name, entry[j].name)
      BY <1>2, <3>1, <3>2
    <3> QED
      BY <1>1, <3>2, <3>3, <3>4, ThreadAssumption DEF LocalInv, Commands, All
  <2> QED
    BY <1>1, <2>1, <2>2, <2>3, ListKept
<1>6. CASE CmdLock(t)
  <2> USE <1>6 DEF CmdLock, Lock, Goto
  <2>1. TypeOK'
    BY <1>1, <1>2 DEF TypeOK
  <2>2. LockInv'
    BY <1>1, <1>2, ThreadAssumption DEF TypeOK, LockInv, ThreadPc, ControlPc, All
  <2>3. LocalInv'
    BY <1>1, <1>2, ThreadAssumption DEF TypeOK, LocalInv, Commands, All
  <2> QED
    BY <1>1, <2>1, <2>2, <2>3, ListKept
<1> QED
  BY <1>3, <1>4, <1>5, <1>6

\* A user thread adds a namespace: the walk compared the new name with every other.
LEMMA NsAppendIInv ==
  ASSUME IInv, NEW t \in Thread, NsAppend(t)
  PROVE  IInv'
<1> USE DEF IInv
<1>1. t \in All /\ Len(entry) \in Nat /\ Len(entry) > 0 /\ arg[t].name \in Seq(Nat)
  BY DEF All, TypeOK
<1>2. /\ pc[t] = "nsloop" /\ lock = t /\ lock' = Nobody /\ pc' = [pc EXCEPT ![t] = "nsout"]
      /\ arg[t].cur = Len(entry) /\ UNCHANGED <<arg, known, handled, calls>>
  BY DEF NsAppend, Unlock, Goto, LockInv
<1>3. entry' = Append(entry, [name |-> arg[t].name, cmds |-> <<>>])
  BY DEF NsAppend
<1>4. /\ entry' \in Seq(Entry) /\ Len(entry') = Len(entry) + 1
      /\ \A i \in 1..Len(entry) : entry'[i] = entry[i]
      /\ entry'[Len(entry) + 1].name = arg[t].name /\ entry'[Len(entry) + 1].cmds = <<>>
  BY <1>1, <1>3, EntryAppended
<1>5. \A j \in 1..Len(entry) : ~Match(arg[t].name, entry[j].name)
  BY <1>1, <1>2 DEF NsAppend, LocalInv
<1> HIDE DEF IInv
<1>6. TypeOK'
  BY <1>1, <1>2, <1>4 DEF IInv, TypeOK
<1>7. LockInv'
  BY <1>1, <1>2, ThreadAssumption DEF IInv, TypeOK, LockInv, ThreadPc, ControlPc, All
<1>8. LocalInv'
  <2>1. /\ pc'[t] = "nsout" /\ arg[t].cur + 1 = Len(entry) + 1
        /\ arg[t].cur \in 1..(Len(entry') - 1)
        /\ entry'[arg[t].cur + 1].name = arg[t].name
    BY <1>1, <1>2, <1>4 DEF IInv, TypeOK
  <2>2. ASSUME NEW u \in Thread, u # t
        PROVE  /\ pc'[u] = pc[u] /\ pc[u] # "nsloop"
               /\ pc[u] = "nsout" =>
                    /\ arg[u].cur \in 1..(Len(entry') - 1)
                    /\ entry'[arg[u].cur + 1].name = arg[u].name
               /\ pc[u] \in {"cmdlock", "cmdloop"} => arg[u].ns \in 2..Len(entry')
    <3>1. pc'[u] = pc[u] /\ pc[u] # "nsloop"
      BY <1>1, <1>2, <2>2 DEF IInv, TypeOK, LockInv, All
    <3>2. ASSUME pc[u] = "nsout"
          PROVE  /\ arg[u].cur \in 1..(Len(entry') - 1)
                 /\ entry'[arg[u].cur + 1].name = arg[u].name
      <4>1. arg[u].cur \in 1..(Len(entry) - 1) /\ entry[arg[u].cur + 1].name = arg[u].name
        BY <3>2 DEF IInv, LocalInv
      <4>2. arg[u].cur + 1 \in 1..Len(entry) /\ arg[u].cur \in 1..(Len(entry') - 1)
        BY <1>1, <1>4, <4>1
      <4> QED
        BY <1>4, <4>1, <4>2
    <3>3. pc[u] \in {"cmdlock", "cmdloop"} => arg[u].ns \in 2..Len(entry')
      BY <1>1, <1>4 DEF IInv, LocalInv
    <3> QED
      BY <3>1, <3>2, <3>3
  <2>3. pc'[Control] = pc[Control]
    BY <1>2, ThreadAssumption DEF IInv, TypeOK, All
  <2>4. /\ pc[Control] \in {"handle", "handler", "unlock"} =>
             /\ arg[Control].ns \in 1..Len(entry')
             /\ Match(arg[Control].name, entry'[arg[Control].ns].name)
        /\ pc[Control] = "handler" =>
             \E i \in 1..Len(entry'[arg[Control].ns].cmds) :
               entry'[arg[Control].ns].cmds[i] = arg[Control].id
    BY <1>1, <1>4 DEF IInv, LocalInv, Commands
  <2> QED
    BY <1>2, <2>1, <2>2, <2>3, <2>4 DEF LocalInv, Commands
<1>9. PointerInv'
  BY <1>1, <1>2, <1>4 DEF IInv, PointerInv
<1>10. NamesUnambiguous'
  <2>1. \A i \in 1..Len(entry) : entry[i].name \in Seq(Nat)
    BY EntryType DEF IInv
  <2>2. \A i \in 1..Len(entry) : ~Match(entry[i].name, arg[t].name)
    BY <1>1, <1>5, <2>1, MatchSymmetric
  <2>3. SUFFICES ASSUME NEW i \in 1..(Len(entry) + 1), NEW j \in 1..(Len(entry) + 1), i # j
                 PROVE  ~Match(entry'[i].name, entry'[j].name)
    BY <1>4 DEF NamesUnambiguous
  <2>4. CASE i \in 1..Len(entry) /\ j \in 1..Len(entry)
    BY <1>4, <2>3, <2>4 DEF IInv, NamesUnambiguous
  <2>5. CASE i = Len(entry) + 1 /\ j \in 1..Len(entry)
    BY <1>4, <1>5, <2>5
  <2>6. CASE j = Len(entry) + 1 /\ i \in 1..Len(entry)
    BY <1>4, <2>2, <2>6
  <2> QED
    BY <1>1, <2>3, <2>4, <2>5, <2>6
<1>11. OwnNamespace'
  BY <1>1, <1>2, <1>4 DEF IInv, PointerInv, OwnNamespace
<1>12. CommandsUnique'
  <2>1. SUFFICES ASSUME NEW e \in 2..(Len(entry) + 1),
                        NEW i \in 1..Len(entry'[e].cmds), NEW j \in 1..Len(entry'[e].cmds), i # j
                 PROVE  entry'[e].cmds[i] # entry'[e].cmds[j]
    BY <1>4 DEF CommandsUnique
  <2>2. CASE e \in 2..Len(entry)
    <3>1. entry'[e] = entry[e]
      BY <1>1, <1>4, <2>2
    <3> QED
      BY <2>1, <2>2, <3>1 DEF IInv, CommandsUnique
  <2>3. CASE e = Len(entry) + 1
    BY <1>4, <2>3
  <2> QED
    BY <1>1, <2>2, <2>3
<1>13. HandledRegistered'
  BY <1>1, <1>2, <1>4 DEF IInv, PointerInv, HandledRegistered
<1> QED
  BY <1>6, <1>7, <1>8, <1>9, <1>10, <1>11, <1>12, <1>13 DEF IInv

\* A user thread returns the entry it added, whatever was added behind it.
LEMMA NsOutIInv ==
  ASSUME IInv, NEW t \in Thread, NsOut(t)
  PROVE  IInv'
<1> USE DEF IInv
<1>1. t \in All /\ Len(entry) \in Nat /\ Len(entry) > 0
  BY DEF All, TypeOK
<1>2. /\ pc[t] = "nsout" /\ pc' = [pc EXCEPT ![t] = "idle"] /\ arg' = [arg EXCEPT ![t] = NoArg]
      /\ known' = known \cup {[name |-> arg[t].name, ns |-> arg[t].cur + 1]}
      /\ UNCHANGED <<entry, lock, handled, calls>>
  BY DEF NsOut, Return, Goto
<1>3. arg[t].cur + 1 \in 2..Len(entry) /\ entry[arg[t].cur + 1].name = arg[t].name
  BY <1>1, <1>2 DEF LocalInv
<1>4. TypeOK'
  <2>1. \A k \in known' : k.ns \in 1..Len(entry)
    BY <1>2, <1>3 DEF TypeOK
  <2> QED
    BY <1>1, <1>2, <2>1, ReturnType DEF TypeOK
<1>5. LockInv'
  BY <1>1, <1>2, ThreadAssumption DEF TypeOK, LockInv, ThreadPc, ControlPc, All
<1>6. LocalInv'
  BY <1>1, <1>2, ThreadAssumption DEF TypeOK, LocalInv, Commands, All
<1>7. PointerInv'
  BY <1>2, <1>3 DEF PointerInv
<1>8. OwnNamespace'
  BY <1>2, <1>3 DEF OwnNamespace
<1>9. NamesUnambiguous' /\ CommandsUnique' /\ HandledRegistered'
  BY <1>2 DEF NamesUnambiguous, CommandsUnique, HandledRegistered
<1> QED
  BY <1>4, <1>5, <1>6, <1>7, <1>8, <1>9

\* A user thread adds a command: at most one command is there and it is another.
LEMMA CmdAppendIInv ==
  ASSUME IInv, NEW t \in Thread, CmdAppend(t)
  PROVE  IInv'
<1> DEFINE e == arg[t].ns
<1> DEFINE c == entry[e].cmds
<1>1. t \in All /\ Len(entry) \in Nat /\ Len(entry) > 0 /\ arg[t].id \in Nat
  BY DEF All, IInv, TypeOK
<1>2. /\ pc[t] = "cmdloop" /\ lock = t /\ lock' = Nobody /\ pc' = [pc EXCEPT ![t] = "idle"]
      /\ arg' = [arg EXCEPT ![t] = NoArg] /\ UNCHANGED <<known, handled, calls>>
  BY DEF CmdAppend, Unlock, Return, Goto, IInv, LockInv
<1>3. e \in 2..Len(entry) /\ e \in 1..Len(entry)
  BY <1>1, <1>2 DEF IInv, LocalInv
<1>4. entry' = [entry EXCEPT ![e].cmds = Append(@, arg[t].id)]
  BY DEF CmdAppend
<1>5. /\ entry' \in Seq(Entry) /\ Len(entry') = Len(entry)
      /\ \A j \in 1..Len(entry) : entry'[j].name = entry[j].name
      /\ \A j \in 1..Len(entry) : j # e => entry'[j] = entry[j]
      /\ c \in Seq(Nat) /\ entry'[e].cmds = Append(c, arg[t].id)
  BY <1>1, <1>3, <1>4, CommandAppended DEF IInv
<1>6. Len(c) = 0 \/ (Len(c) = 1 /\ c[1] # arg[t].id)
  BY DEF CmdAppend, Commands
<1> HIDE DEF e, c
<1>7. TypeOK'
  <2>1. /\ entry' \in Seq(Entry) /\ Len(entry') > 0 /\ lock' \in All \cup {Nobody}
        /\ calls' \in [All -> Nat] /\ \A k \in known' : k.ns \in 1..Len(entry')
    BY <1>1, <1>2, <1>5 DEF IInv, TypeOK
  <2> QED
    BY <1>1, <1>2, <1>5, <2>1, ReturnType DEF IInv, TypeOK
<1>8. LockInv'
  BY <1>1, <1>2, ThreadAssumption DEF IInv, TypeOK, LockInv, ThreadPc, ControlPc, All
<1>9. LocalInv'
  <2>1. pc'[t] = "idle" /\ pc'[Control] = pc[Control] /\ arg'[Control] = arg[Control]
    BY <1>1, <1>2, ThreadAssumption DEF IInv, TypeOK, All
  <2>2. ASSUME NEW u \in Thread, u # t
        PROVE  /\ pc'[u] = pc[u] /\ arg'[u] = arg[u] /\ pc[u] # "nsloop"
               /\ pc[u] = "nsout" =>
                    /\ arg[u].cur \in 1..(Len(entry') - 1)
                    /\ entry'[arg[u].cur + 1].name = arg[u].name
               /\ pc[u] \in {"cmdlock", "cmdloop"} => arg[u].ns \in 2..Len(entry')
    <3>1. pc'[u] = pc[u] /\ arg'[u] = arg[u] /\ pc[u] # "nsloop"
      BY <1>1, <1>2, <2>2 DEF IInv, TypeOK, LockInv, All
    <3>2. ASSUME pc[u] = "nsout"
          PROVE  /\ arg[u].cur \in 1..(Len(entry') - 1)
                 /\ entry'[arg[u].cur + 1].name = arg[u].name
      <4>1. arg[u].cur \in 1..(Len(entry) - 1) /\ entry[arg[u].cur + 1].name = arg[u].name
        BY <3>2 DEF IInv, LocalInv
      <4>2. arg[u].cur + 1 \in 1..Len(entry)
        BY <1>1, <4>1
      <4> QED
        BY <1>5, <4>1, <4>2
    <3>3. pc[u] \in {"cmdlock", "cmdloop"} => arg[u].ns \in 2..Len(entry')
      BY <1>5 DEF IInv, LocalInv
    <3> QED
      BY <3>1, <3>2, <3>3
  <2>3. pc[Control] \in {"handle", "handler", "unlock"} =>
          /\ arg[Control].ns \in 1..Len(entry')
          /\ Match(arg[Control].name, entry'[arg[Control].ns].name)
    BY <1>5 DEF IInv, LocalInv
  <2>4. pc[Control] # "handler"
    BY <1>1, <1>2, ThreadAssumption DEF IInv, LockInv
  <2> QED
    BY <2>1, <2>2, <2>3, <2>4 DEF LocalInv
<1>10. PointerInv' /\ OwnNamespace'
  <2>1. PointerInv'
    BY <1>2, <1>5 DEF IInv, PointerInv
  <2>2. OwnNamespace'
    <3> SUFFICES ASSUME NEW k \in known PROVE entry'[k.ns].name = k.name
      BY <1>2 DEF OwnNamespace
    <3>1. k.ns \in 1..Len(entry) /\ entry[k.ns].name = k.name
      BY DEF IInv, TypeOK, OwnNamespace
    <3>2. entry'[k.ns].name = entry[k.ns].name
      BY <1>5, <3>1
    <3> QED
      BY <3>1, <3>2
  <2> QED
    BY <2>1, <2>2
<1>11. NamesUnambiguous'
  <2> SUFFICES ASSUME NEW i \in 1..Len(entry), NEW j \in 1..Len(entry), i # j
               PROVE  ~Match(entry'[i].name, entry'[j].name)
    BY <1>5 DEF NamesUnambiguous
  <2>1. entry'[i].name = entry[i].name /\ entry'[j].name = entry[j].name
    BY <1>5
  <2>2. ~Match(entry[i].name, entry[j].name)
    BY DEF IInv, NamesUnambiguous
  <2> QED
    BY <2>1, <2>2
<1>12. CommandsUnique'
  <2>1. SUFFICES ASSUME NEW f \in 2..Len(entry),
                        NEW i \in 1..Len(entry'[f].cmds), NEW j \in 1..Len(entry'[f].cmds), i # j
                 PROVE  entry'[f].cmds[i] # entry'[f].cmds[j]
    BY <1>5 DEF CommandsUnique
  <2>2. CASE f # e
    BY <1>1, <1>5, <2>1, <2>2 DEF IInv, CommandsUnique
  <2>3. CASE f = e
    <3>1. Len(Append(c, arg[t].id)) = Len(c) + 1 /\ Len(c) \in Nat
      BY <1>1, <1>5
    <3>2. CASE Len(c) = 0
      BY <1>5, <2>1, <2>3, <3>1, <3>2
    <3>3. CASE Len(c) = 1 /\ c[1] # arg[t].id
      <4>1. Append(c, arg[t].id)[1] = c[1] /\ Append(c, arg[t].id)[2] = arg[t].id
        BY <1>1, <1>5, <3>3, AppendOne
      <4>2. i \in 1..2 /\ j \in 1..2
        BY <1>5, <2>3, <3>1, <3>3
      <4>3. (i = 1 /\ j = 2) \/ (i = 2 /\ j = 1)
        BY <2>1, <4>2
      <4> QED
        BY <1>1, <1>5, <2>3, <3>3, <4>1, <4>3
    <3> QED
      BY <1>6, <3>2, <3>3
  <2> QED
    BY <2>2, <2>3
<1>13. HandledRegistered'
  <2>1. SUFFICES ASSUME NEW h \in handled
                 PROVE  /\ Match(h.name, entry'[h.ns].name)
                        /\ \E i \in 1..Len(entry'[h.ns].cmds) : entry'[h.ns].cmds[i] = h.id
    BY <1>2 DEF HandledRegistered
  <2>2. /\ h.ns \in 1..Len(entry) /\ Match(h.name, entry[h.ns].name)
        /\ \E i \in 1..Len(entry[h.ns].cmds) : entry[h.ns].cmds[i] = h.id
    BY DEF IInv, PointerInv, HandledRegistered
  <2>3. CASE h.ns # e
    BY <1>5, <2>2, <2>3
  <2>4. CASE h.ns = e
    <3>1. PICK i \in 1..Len(c) : c[i] = h.id
      BY <2>2, <2>4 DEF c
    <3>2. i \in 1..Len(entry'[e].cmds) /\ entry'[e].cmds[i] = h.id
      BY <1>1, <1>5, <3>1
    <3> QED
      BY <1>5, <2>2, <2>4, <3>2
  <2> QED
    BY <2>3, <2>4
<1> QED
  BY <1>7, <1>8, <1>9, <1>10, <1>11, <1>12, <1>13 DEF IInv

\* The control thread resolves a name and runs a handler.
LEMMA ControlIInv ==
  ASSUME IInv, ControlStep
  PROVE  IInv'
<1>1. Control \in All /\ Control \notin Thread /\ Len(entry) \in Nat /\ Len(entry) > 0
  BY ThreadAssumption DEF All, IInv, TypeOK
<1>2. CASE resolve /\ FirstMatch(arg[Control].name, Names) # 0
  <2> DEFINE f == FirstMatch(arg[Control].name, Names)
  <2>1. Len(Names) = Len(entry) /\ \A i \in 1..Len(entry) : Names[i] = entry[i].name
    BY <1>1 DEF Names, IInv, TypeOK
  <2>2. f \in 1..Len(entry) /\ Match(arg[Control].name, entry[f].name)
    BY <1>1, <1>2, <2>1, FirstMatchType
  <2>3. /\ pc[Control] = "resolve" /\ pc' = [pc EXCEPT ![Control] = "handle"]
        /\ arg' = [arg EXCEPT ![Control].ns = f] /\ UNCHANGED <<entry, lock, known, handled, calls>>
    BY <1>2 DEF resolve, Goto
  <2> HIDE DEF f
  <2>4. arg[Control] \in Arg /\ f \in 0..Len(entry)
    BY <1>1, <2>2 DEF IInv, TypeOK, Arg
  <2>5. [arg[Control] EXCEPT !.ns = f] \in Arg
    BY <2>4 DEF Arg
  <2>6. arg' = [arg EXCEPT ![Control] = [arg[Control] EXCEPT !.ns = f]]
    BY <2>3
  <2>7. arg' \in [All -> Arg]
    BY <1>1, <2>5, <2>6 DEF IInv, TypeOK, Arg
  <2>8. TypeOK'
    BY <1>1, <2>3, <2>7 DEF IInv, TypeOK, Arg
  <2>9. LockInv'
    BY <1>1, <2>3 DEF IInv, TypeOK, LockInv, ControlPc, All
  <2>10. arg'[Control].ns = f /\ arg'[Control].name = arg[Control].name
    BY <1>1, <2>4, <2>6 DEF IInv, TypeOK, Arg
  <2>11. \A t \in Thread : arg'[t] = arg[t] /\ pc'[t] = pc[t]
    BY <1>1, <2>3 DEF IInv, TypeOK, All
  <2>12. pc'[Control] = "handle"
    BY <1>1, <2>3 DEF IInv, TypeOK
  <2>13. LocalInv'
    BY <2>2, <2>3, <2>10, <2>11, <2>12 DEF IInv, LocalInv
  <2> QED
    BY <2>3, <2>8, <2>9, <2>13, ListKept DEF IInv
<1>3. CASE (resolve /\ FirstMatch(arg[Control].name, Names) = 0) \/ HandleUnlock
  <2>1. /\ pc' = [pc EXCEPT ![Control] = "idle"] /\ arg' = [arg EXCEPT ![Control] = NoArg]
        /\ UNCHANGED <<entry, known, handled, calls>>
        /\ lock' = lock \/ (lock = Control /\ lock' = Nobody)
    BY <1>3 DEF resolve, HandleUnlock, Return, Goto, Unlock, IInv, LockInv
  <2>2. TypeOK'
    BY <1>1, <2>1 DEF IInv, TypeOK, NoArg
  <2>3. LockInv'
    BY <1>1, <2>1 DEF IInv, TypeOK, LockInv, ControlPc, All
  <2>4. LocalInv'
    BY <1>1, <2>1 DEF IInv, TypeOK, LocalInv, Commands, All
  <2> QED
    BY <2>1, <2>2, <2>3, <2>4, ListKept DEF IInv
<1>4. CASE HandleLock
  <2>1. /\ pc[Control] = "handle" /\ lock = Nobody /\ lock' = Control
        /\ UNCHANGED <<entry, arg, known, handled, calls>>
        /\ \/ /\ pc' = [pc EXCEPT ![Control] = "handler"]
              /\ \E k \in DOMAIN Commands(Control) : Commands(Control)[k] = arg[Control].id
           \/ pc' = [pc EXCEPT ![Control] = "unlock"]
    BY <1>4 DEF HandleLock, Lock, Goto
  <2>2. arg[Control].ns \in 1..Len(entry)
    BY <2>1 DEF IInv, LocalInv
  <2>3. Commands(Control) \in Seq(Nat)
    BY <2>2, EntryType DEF IInv, Commands
  <2>4. DOMAIN Commands(Control) = 1..Len(Commands(Control))
    BY <2>3
  <2>5. TypeOK'
    BY <1>1, <2>1 DEF IInv, TypeOK
  <2>6. LockInv'
    BY <1>1, <2>1, ThreadAssumption DEF IInv, TypeOK, LockInv, ControlPc, ThreadPc, All
  <2>7. LocalInv'
    <3>1. Commands(Control)' = Commands(Control)
      BY <2>1 DEF Commands
    <3>2. \A t \in Thread : pc'[t] = pc[t]
      BY <1>1, <2>1 DEF IInv, TypeOK, All
    <3>3. pc'[Control] = "handler" =>
            \E k \in 1..Len(Commands(Control)) : Commands(Control)[k] = arg[Control].id
      BY <1>1, <2>1, <2>4 DEF IInv, TypeOK
    <3> QED
      BY <1>1, <2>1, <3>1, <3>2, <3>3 DEF IInv, LocalInv
  <2> QED
    BY <2>1, <2>5, <2>6, <2>7, ListKept DEF IInv
<1>5. CASE Handler
  <2>1. /\ pc[Control] = "handler" /\ pc' = [pc EXCEPT ![Control] = "unlock"]
        /\ handled' = handled \cup
             {[name |-> arg[Control].name, ns |-> arg[Control].ns, id |-> arg[Control].id]}
        /\ UNCHANGED <<entry, lock, arg, known, calls>>
    BY <1>5 DEF Handler, Goto
  <2>2. /\ arg[Control].ns \in 1..Len(entry)
        /\ Match(arg[Control].name, entry[arg[Control].ns].name)
        /\ \E i \in 1..Len(entry[arg[Control].ns].cmds) :
             entry[arg[Control].ns].cmds[i] = arg[Control].id
    BY <2>1 DEF IInv, LocalInv, Commands
  <2>3. TypeOK'
    BY <1>1, <2>1 DEF IInv, TypeOK
  <2>4. LockInv'
    BY <1>1, <2>1 DEF IInv, TypeOK, LockInv, ControlPc, ThreadPc, All
  <2>5. LocalInv'
    BY <1>1, <2>1, <2>2 DEF IInv, TypeOK, LocalInv, Commands, All
  <2>6. PointerInv' /\ HandledRegistered'
    BY <2>1, <2>2 DEF IInv, PointerInv, HandledRegistered
  <2>7. NamesUnambiguous' /\ OwnNamespace' /\ CommandsUnique'
    BY <2>1 DEF IInv, NamesUnambiguous, OwnNamespace, CommandsUnique
  <2> QED
    BY <2>3, <2>4, <2>5, <2>6, <2>7 DEF IInv
<1> QED
  BY <1>2, <1>3, <1>4, <1>5 DEF ControlStep

\* Every step keeps the inductive invariant.
LEMMA NextIInv == IInv /\ [Next]_vars => IInv'
<1> SUFFICES ASSUME IInv, [Next]_vars PROVE IInv'
  OBVIOUS
<1>1. CASE UNCHANGED vars
  BY <1>1 DEF vars, IInv, TypeOK, LockInv, LocalInv, PointerInv, NamesUnambiguous,
              OwnNamespace, CommandsUnique, HandledRegistered, Commands
<1>2. ASSUME NEW t \in Thread, ThreadStep(t)
      PROVE  IInv'
  BY <1>1, <1>2, WalkIInv, NsAppendIInv, NsOutIInv, CmdAppendIInv DEF ThreadStep, CmdLoop
<1>3. CASE ControlStep
  BY <1>3, ControlIInv
<1> QED
  BY <1>1, <1>2, <1>3, CallIInv DEF Next

\* The inductive invariant holds of every reachable state.
THEOREM RegistryIInv == Spec => []IInv
  BY InitIInv, NextIInv, PTL DEF Spec

\* Type correctness: pointers stay inside the list.
THEOREM RegistryTypeOK == Spec => []TypeOK
  BY RegistryIInv, PTL DEF IInv

\* No two registered names match, however registrations interleave.
THEOREM RegistryNamesUnambiguous == Spec => []NamesUnambiguous
  BY RegistryIInv, PTL DEF IInv

\* register_namespace returns the namespace that was asked for.
THEOREM RegistryOwnNamespace == Spec => []OwnNamespace
  BY RegistryIInv, PTL DEF IInv

\* No command id is registered twice in a namespace.
THEOREM RegistryCommandsUnique == Spec => []CommandsUnique
  BY RegistryIInv, PTL DEF IInv

\* Handlers only run for registered commands of a namespace that the name matches.
THEOREM RegistryHandledRegistered == Spec => []HandledRegistered
  BY RegistryIInv, PTL DEF IInv

\* No step changes an entry but by appending, so pointers into the list stay valid.
LEMMA PointerStep ==
  ASSUME IInv, [Next]_vars
  PROVE  [/\ Len(entry') >= Len(entry)
          /\ \A i \in 1..Len(entry) : /\ entry'[i].name = entry[i].name
                                      /\ Extends(entry[i].cmds, entry'[i].cmds)]_vars
<1>1. Len(entry) \in Nat /\ \A i \in 1..Len(entry) : entry[i].cmds \in Seq(Nat)
  BY EntryType DEF IInv, TypeOK
<1>2. ASSUME NEW t \in Thread, NsAppend(t)
      PROVE  Len(entry') >= Len(entry) /\ \A i \in 1..Len(entry) : entry'[i] = entry[i]
  <2>1. arg[t].name \in Seq(Nat)
    BY DEF IInv, TypeOK, All
  <2> QED
    BY <1>1, <1>2, <2>1, EntryAppended DEF NsAppend, IInv
<1>3. ASSUME NEW t \in Thread, CmdAppend(t)
      PROVE  /\ Len(entry') >= Len(entry)
             /\ \A i \in 1..Len(entry) : /\ entry'[i].name = entry[i].name
                                         /\ Extends(entry[i].cmds, entry'[i].cmds)
  <2> DEFINE e == arg[t].ns
  <2>1. e \in 1..Len(entry) /\ arg[t].id \in Nat
    BY <1>1, <1>3 DEF CmdAppend, IInv, TypeOK, LocalInv, All
  <2>2. /\ Len(entry') = Len(entry)
        /\ \A j \in 1..Len(entry) : entry'[j].name = entry[j].name
        /\ \A j \in 1..Len(entry) : j # e => entry'[j] = entry[j]
        /\ entry'[e].cmds = Append(entry[e].cmds, arg[t].id)
    BY <1>3, <2>1, CommandAppended DEF CmdAppend, IInv
  <2> HIDE DEF e
  <2>3. Extends(entry[e].cmds, entry'[e].cmds)
    BY <1>1, <2>1, <2>2 DEF Extends
  <2>4. \A j \in 1..Len(entry) : j # e => Extends(entry[j].cmds, entry'[j].cmds)
    BY <1>1, <2>2 DEF Extends
  <2>5. Len(entry') >= Len(entry)
    BY <1>1, <2>2
  <2> QED
    BY <2>2, <2>3, <2>4, <2>5
<1>4. CASE UNCHANGED entry
  BY <1>1, <1>4 DEF Extends
<1>5. UNCHANGED entry \/ \E t \in Thread : NsAppend(t) \/ CmdAppend(t)
  BY DEF Next, vars, ThreadStep, ControlStep, RegisterNamespace, RegisterCommand, NsLock,
         NsExists, NsNext, NsOut, CmdLock, CmdExists, CmdLoop, ReceiveCommand, resolve,
         HandleLock, Handler, HandleUnlock
<1> QED
  BY <1>1, <1>2, <1>3, <1>4, <1>5 DEF Extends

\* Once a pointer of the registry is set it never changes.
THEOREM RegistryStablePointers == Spec => StablePointers
<1>1. IInv /\ [Next]_vars =>
        [/\ Len(entry') >= Len(entry)
         /\ \A i \in 1..Len(entry) : /\ entry'[i].name = entry[i].name
                                     /\ Extends(entry[i].cmds, entry'[i].cmds)]_vars
  BY PointerStep
<1> QED
  BY <1>1, RegistryIInv, PTL DEF Spec, StablePointers

\* While a thread holds the mutex inside register_command, only its own steps change the
\* list, the mutex, and its place.
LEMMA OwnerUndisturbed ==
  ASSUME IInv, [Next]_vars, NEW t \in Thread, pc[t] = "cmdloop"
  PROVE  CmdExists(t) \/ CmdAppend(t) \/ (UNCHANGED <<entry, lock>> /\ pc'[t] = pc[t] /\ arg'[t] = arg[t])
<1>1. lock = t /\ t \in All /\ t # Nobody /\ t # Control /\ Control \in All
  BY ThreadAssumption DEF IInv, LockInv, All
<1>2. pc \in [All -> {"idle", "nslock", "nsloop", "nsout", "cmdlock", "cmdloop",
                     "resolve", "handle", "handler", "unlock"}] /\ DOMAIN arg = All
  BY DEF IInv, TypeOK
<1>3. ASSUME NEW s \in All, s # t, NEW label, NEW a, Call(s, label, a)
      PROVE  pc'[t] = pc[t] /\ arg'[t] = arg[t]
  BY <1>1, <1>2, <1>3 DEF Call, Goto
<1>4. ASSUME NEW s \in All, s # t, Return(s)
      PROVE  pc'[t] = pc[t] /\ arg'[t] = arg[t]
  BY <1>1, <1>2, <1>4 DEF Return, Goto
<1>5. ASSUME NEW n \in Name \cup {BuiltinName}, NEW i \in Id, ReceiveCommand(n, i)
      PROVE  UNCHANGED <<entry, lock>> /\ pc'[t] = pc[t] /\ arg'[t] = arg[t]
  BY <1>1, <1>3, <1>5 DEF ReceiveCommand
<1>6. ASSUME NEW s \in Thread, NEW n \in Name, RegisterNamespace(s, n)
      PROVE  UNCHANGED <<entry, lock>> /\ pc'[t] = pc[t] /\ arg'[t] = arg[t]
  <2>1. s # t /\ s \in All
    BY <1>6 DEF RegisterNamespace, Call, All
  <2> QED
    BY <1>3, <1>6, <2>1 DEF RegisterNamespace
<1>7. ASSUME NEW s \in Thread, NEW k \in known, NEW i \in Id, RegisterCommand(s, k, i)
      PROVE  UNCHANGED <<entry, lock>> /\ pc'[t] = pc[t] /\ arg'[t] = arg[t]
  <2>1. s # t /\ s \in All
    BY <1>7 DEF RegisterCommand, Call, All
  <2> QED
    BY <1>3, <1>7, <2>1 DEF RegisterCommand
<1>8. ASSUME NEW s \in Thread, ThreadStep(s), s # t
      PROVE  UNCHANGED <<entry, lock>> /\ pc'[t] = pc[t] /\ arg'[t] = arg[t]
  <2>1. s \in All /\ pc[s] \notin {"nsloop", "cmdloop"}
    BY <1>1, <1>8 DEF IInv, LockInv, All
  <2>2. NsOut(s)
    BY <1>1, <1>8, <2>1 DEF ThreadStep, NsLock, NsExists, NsNext, NsAppend, CmdLock,
       CmdExists, CmdLoop, Looping, CmdAppend, Lock
  <2> QED
    BY <1>4, <1>8, <2>1, <2>2 DEF NsOut
<1>9. ASSUME ThreadStep(t)
      PROVE  CmdExists(t) \/ CmdAppend(t) \/ UNCHANGED vars
  BY <1>9 DEF ThreadStep, NsLock, NsExists, NsNext, NsAppend, NsOut, CmdLock, CmdLoop
<1>10. ~ControlStep
  BY <1>1 DEF ControlStep, resolve, HandleLock, Handler, HandleUnlock, Lock, IInv, LockInv
<1> QED
  BY <1>5, <1>6, <1>7, <1>8, <1>9, <1>10 DEF Next, vars

\* When register_command appends to a list of commands, and how long it is then.
LEMMA ShortList ==
  ASSUME NEW s \in Seq(Nat), NEW i \in Nat
  PROVE  /\ Len(s) > 1 => s # <<>> /\ Len(s) # 1
         /\ s = <<>> \/ Len(s) = 1 => Len(Append(s, i)) <= 2
<1>1. Len(s) \in Nat
  OBVIOUS
<1>2. s = <<>> => Len(s) = 0
  BY EmptySeq
<1>3. Len(Append(s, i)) = Len(s) + 1
  BY AppendProperties
<1>4. \A n \in Nat : (n > 1 => n # 0 /\ n # 1) /\ (n = 0 \/ n = 1 => n + 1 <= 2)
  OBVIOUS
<1> QED
  BY <1>1, <1>2, <1>3, <1>4, Zenon

\* A call of register_command that meets a list of two commands, the first of
\* which is not its own, never returns and never unlocks the mutex.
THEOREM RegistryLoopsForEver ==
  ASSUME NEW t \in Thread
  PROVE  Spec => [](Looping(t) => [](Looping(t) /\ lock = t))
<1>1. IInv /\ Looping(t) /\ [Next]_vars => Looping(t)'
  <2> SUFFICES ASSUME IInv, Looping(t), [Next]_vars
               PROVE  Looping(t)'
    OBVIOUS
  <2>1. pc[t] = "cmdloop" /\ Len(Commands(t)) > 1 /\ Commands(t)[1] # arg[t].id
    BY DEF Looping
  <2>2. ~CmdExists(t) /\ ~CmdAppend(t)
    <3>a. Len(entry) \in Nat /\ \A i \in 1..Len(entry) : entry[i].cmds \in Seq(Nat)
      BY EntryType DEF IInv, TypeOK
    <3>b. Commands(t) \in Seq(Nat)
      BY <2>1, <3>a DEF Commands, IInv, LocalInv
    <3>c. Commands(t) # <<>> /\ Len(Commands(t)) # 1
      BY <2>1, <3>b, ShortList
    <3> QED
      BY <2>1, <3>c DEF CmdExists, CmdAppend
  <2>3. UNCHANGED entry /\ pc'[t] = pc[t] /\ arg'[t] = arg[t]
    BY <2>1, <2>2, OwnerUndisturbed
  <2> QED
    BY <2>1, <2>3 DEF Looping, Commands
<1>2. IInv /\ Looping(t) => lock = t
  BY DEF IInv, LockInv, Looping
<1> QED
  BY <1>1, <1>2, RegistryIInv, PTL DEF Spec

\* At most two commands: what register_command can add to a namespace of a user.
AtMostTwo == \A e \in 2..Len(entry) : Len(entry[e].cmds) <= 2

\* No user's namespace ever has a third command, because of the loop.
THEOREM RegistryAtMostTwo == Spec => []AtMostTwo
<1>1. Init => AtMostTwo
  BY DEF Init, AtMostTwo
<1>2. IInv /\ AtMostTwo /\ [Next]_vars => AtMostTwo'
  <2> SUFFICES ASSUME IInv, AtMostTwo, [Next]_vars
               PROVE  AtMostTwo'
    OBVIOUS
  <2>1. Len(entry) \in Nat /\ \A i \in 1..Len(entry) : entry[i].cmds \in Seq(Nat)
    BY EntryType DEF IInv, TypeOK
  <2>2. ASSUME NEW t \in Thread, NsAppend(t)
        PROVE  AtMostTwo'
    <3>1. arg[t].name \in Seq(Nat)
      BY DEF IInv, TypeOK, All
    <3>2. /\ Len(entry') = Len(entry) + 1
          /\ \A i \in 1..Len(entry) : entry'[i] = entry[i]
          /\ entry'[Len(entry) + 1].cmds = <<>>
      BY <2>2, <3>1, EntryAppended DEF NsAppend, IInv
    <3> QED
      BY <2>1, <3>2 DEF AtMostTwo
  <2>3. ASSUME NEW t \in Thread, CmdAppend(t)
        PROVE  AtMostTwo'
    <3> DEFINE e == arg[t].ns
    <3>1. e \in 1..Len(entry) /\ arg[t].id \in Nat
      BY <2>1, <2>3 DEF CmdAppend, IInv, TypeOK, LocalInv, All
    <3>2. /\ Len(entry') = Len(entry)
          /\ \A j \in 1..Len(entry) : j # e => entry'[j] = entry[j]
          /\ entry'[e].cmds = Append(entry[e].cmds, arg[t].id)
      BY <2>3, <3>1, CommandAppended DEF CmdAppend, IInv
    <3>3. entry[e].cmds = <<>> \/ Len(entry[e].cmds) = 1
      BY <2>3 DEF CmdAppend, Commands
    <3> HIDE DEF e
    <3>4. Len(entry'[e].cmds) <= 2
      <4>1. entry[e].cmds \in Seq(Nat)
        BY <2>1, <3>1
      <4> QED
        BY <3>1, <3>2, <3>3, <4>1, ShortList
    <3> QED
      BY <2>1, <3>1, <3>2, <3>4 DEF AtMostTwo
  <2>4. CASE UNCHANGED entry
    BY <2>4 DEF AtMostTwo
  <2>5. UNCHANGED entry \/ \E t \in Thread : NsAppend(t) \/ CmdAppend(t)
    BY DEF Next, vars, ThreadStep, ControlStep, RegisterNamespace, RegisterCommand, NsLock,
           NsExists, NsNext, NsOut, CmdLock, CmdExists, CmdLoop, ReceiveCommand, resolve,
           HandleLock, Handler, HandleUnlock
  <2> QED
    BY <2>2, <2>3, <2>4, <2>5
<1> QED
  BY <1>1, <1>2, RegistryIInv, PTL DEF Spec
=============================================================================
