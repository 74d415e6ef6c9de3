------------------------------ MODULE Registry ------------------------------
(***************************************************************************)
(* The registry of control namespaces and commands: user threads register  *)
(* namespaces and commands, the control thread resolves names and runs     *)
(* command handlers, all under g_control_namespace_registry_mutex.         *)
(*                                                                         *)
(* The linked list of namespaces is a sequence of entries, a pointer to an *)
(* entry is its index, and the first entry is the builtin namespace.  The  *)
(* walk over the list is one action per entry.                             *)
(***************************************************************************)
EXTENDS Integers, Sequences, ControlNames

CONSTANTS
  Thread,      \* user threads
  Control,     \* the control thread
  Nobody,      \* nobody holds the mutex
  Name, Id,    \* names and command ids that are registered and sent
  BuiltinName, BuiltinIds,
  MaxCalls,    \* bound on the calls of a user thread
  MaxMessages  \* bound on the messages the control thread receives

ASSUME ThreadAssumption  == Control \notin Thread /\ Nobody \notin Thread \cup {Control}
ASSUME BuiltinAssumption == BuiltinIds \in Seq(Nat) /\ Id \subseteq Nat
ASSUME NameAssumption    == Name \subseteq Seq(Nat) /\ BuiltinName \in Seq(Nat)
ASSUME CallsAssumption   == MaxCalls \in Nat /\ MaxMessages \in Nat

VARIABLES
  entry,    \* the namespace registry: [name, cmds]
  lock,     \* holder of the mutex
  pc, arg,  \* of each thread: its place, and the arguments and locals of its call
  known,    \* what register_namespace returned: [name, ns]
  handled,  \* handlers that ran: [name, ns, id]
  calls

vars == <<entry, lock, pc, arg, known, handled, calls>>

All == Thread \cup {Control}

\* name, ns, id: arguments; cur: namespace_entry in register_namespace.
NoArg == [name |-> <<>>, ns |-> 0, id |-> 0, cur |-> 0]

Init ==
  /\ entry = << [name |-> BuiltinName, cmds |-> BuiltinIds] >>
  /\ lock = Nobody
  /\ pc = [t \in All |-> "idle"]
  /\ arg = [t \in All |-> NoArg]
  /\ known = {} /\ handled = {}
  /\ calls = [t \in All |-> 0]

Goto(t, label) == pc' = [pc EXCEPT ![t] = label]
Lock(t)        == lock = Nobody /\ lock' = t
Unlock(t)      == lock' = Nobody

Call(t, label, a) ==
  /\ pc[t] = "idle"
  /\ calls[t] < IF t = Control THEN MaxMessages ELSE MaxCalls
  /\ calls' = [calls EXCEPT ![t] = @ + 1]
  /\ Goto(t, label)
  /\ arg' = [arg EXCEPT ![t] = a]

Return(t) ==
  /\ Goto(t, "idle")
  /\ arg' = [arg EXCEPT ![t] = NoArg]

-----------------------------------------------------------------------------
(* es_control_register_namespace *)

RegisterNamespace(t, n) ==
  /\ Call(t, "nslock", [NoArg EXCEPT !.name = n])
  /\ UNCHANGED <<entry, lock, known, handled>>

NsLock(t) ==
  /\ pc[t] = "nslock"
  /\ Lock(t)
  /\ arg' = [arg EXCEPT ![t].cur = 1]
  /\ Goto(t, "nsloop")
  /\ UNCHANGED <<entry, known, handled, calls>>

\* Variant: the early return does not release the mutex.
NsExists_KeepLock(t) ==
  /\ pc[t] = "nsloop"
  /\ Match(arg[t].name, entry[arg[t].cur].name)
  /\ Return(t)
  /\ UNCHANGED <<entry, lock, known, handled, calls>>

\* EVENTLOG_SOCKET_ERR_CTL_EXISTS
NsExists(t) ==
  /\ pc[t] = "nsloop"
  /\ Match(arg[t].name, entry[arg[t].cur].name)
  /\ Unlock(t)
  /\ Return(t)
  /\ UNCHANGED <<entry, known, handled, calls>>

NsNext(t) ==
  /\ pc[t] = "nsloop"
  /\ ~Match(arg[t].name, entry[arg[t].cur].name)
  /\ arg[t].cur < Len(entry)
  /\ arg' = [arg EXCEPT ![t].cur = @ + 1]
  /\ UNCHANGED <<entry, lock, pc, known, handled, calls>>

\* Variant: the last entry is not compared.
NsAppend_SkipLast(t) ==
  /\ pc[t] = "nsloop"
  /\ arg[t].cur = Len(entry)
  /\ entry' = Append(entry, [name |-> arg[t].name, cmds |-> <<>>])
  /\ Unlock(t)
  /\ Goto(t, "nsout")
  /\ UNCHANGED <<arg, known, handled, calls>>

NsAppend(t) ==
  /\ pc[t] = "nsloop"
  /\ ~Match(arg[t].name, entry[arg[t].cur].name)
  /\ arg[t].cur = Len(entry)
  /\ entry' = Append(entry, [name |-> arg[t].name, cmds |-> <<>>])
  /\ Unlock(t)
  /\ Goto(t, "nsout")
  /\ UNCHANGED <<arg, known, handled, calls>>

\* Variant: the last entry is returned, as it is after the unlock.
NsOut_Last(t) ==
  /\ pc[t] = "nsout"
  /\ known' = known \cup {[name |-> arg[t].name, ns |-> Len(entry)]}
  /\ Return(t)
  /\ UNCHANGED <<entry, lock, handled, calls>>

\* After the unlock: *namespace_out = namespace_entry->next.
NsOut(t) ==
  /\ pc[t] = "nsout"
  /\ known' = known \cup {[name |-> arg[t].name, ns |-> arg[t].cur + 1]}
  /\ Return(t)
  /\ UNCHANGED <<entry, lock, handled, calls>>

-----------------------------------------------------------------------------
(* es_control_register_command; a namespace is one that was returned, so never *)
(* NULL and never the builtin one                                              *)

RegisterCommand(t, k, i) ==
  /\ k \in known
  /\ Call(t, "cmdlock", [name |-> <<>>, ns |-> k.ns, id |-> i, cur |-> 0])
  /\ UNCHANGED <<entry, lock, known, handled>>

CmdLock(t) ==
  /\ pc[t] = "cmdlock"
  /\ Lock(t)
  /\ Goto(t, "cmdloop")
  /\ UNCHANGED <<entry, arg, known, handled, calls>>

Commands(t) == entry[arg[t].ns].cmds

CmdExists(t) ==
  /\ pc[t] = "cmdloop"
  /\ Commands(t) # <<>> /\ Commands(t)[1] = arg[t].id
  /\ Unlock(t)
  /\ Return(t)
  /\ UNCHANGED <<entry, known, handled, calls>>

\* Each iteration starts again at the head, and the head is not the last entry.
Looping(t) ==
  /\ pc[t] = "cmdloop"
  /\ Len(Commands(t)) > 1 /\ Commands(t)[1] # arg[t].id

CmdLoop(t) == Looping(t) /\ UNCHANGED vars

\* Variant: the new command becomes the head of the list.
CmdAppend_Prepend(t) ==
  /\ pc[t] = "cmdloop"
  /\ Commands(t) = <<>> \/ (Len(Commands(t)) = 1 /\ Commands(t)[1] # arg[t].id)
  /\ entry' = [entry EXCEPT ![arg[t].ns].cmds = <<arg[t].id>> \o @]
  /\ Unlock(t)
  /\ Return(t)
  /\ UNCHANGED <<known, handled, calls>>

CmdAppend(t) ==
  /\ pc[t] = "cmdloop"
  /\ Commands(t) = <<>> \/ (Len(Commands(t)) = 1 /\ Commands(t)[1] # arg[t].id)
  /\ entry' = [entry EXCEPT ![arg[t].ns].cmds = Append(@, arg[t].id)]
  /\ Unlock(t)
  /\ Return(t)
  /\ UNCHANGED <<known, handled, calls>>

-----------------------------------------------------------------------------
(* The control thread: a message for name n and command i *)

ReceiveCommand(n, i) ==
  /\ Call(Control, "resolve", [name |-> n, ns |-> 0, id |-> i, cur |-> 0])
  /\ UNCHANGED <<entry, lock, known, handled>>

Names == [i \in DOMAIN entry |-> entry[i].name]

\* es_control_namespace_store_resolve: lock, walk and unlock.
resolve ==
  /\ pc[Control] = "resolve"
  /\ lock = Nobody
  /\ LET found == FirstMatch(arg[Control].name, Names)
     IN  IF found = 0 THEN Return(Control)
         ELSE Goto(Control, "handle") /\ arg' = [arg EXCEPT ![Control].ns = found]
  /\ UNCHANGED <<entry, lock, known, handled, calls>>

\* Variant: the handler of the first command runs whatever its id.
HandleLock_First ==
  /\ pc[Control] = "handle"
  /\ Lock(Control)
  /\ Goto(Control, IF Commands(Control) # <<>> THEN "handler" ELSE "unlock")
  /\ UNCHANGED <<entry, arg, known, handled, calls>>

\* es_control_command_handle: lock and walk; the handler runs under the mutex.
HandleLock ==
  /\ pc[Control] = "handle"
  /\ Lock(Control)
  /\ Goto(Control, IF \E k \in DOMAIN Commands(Control) : Commands(Control)[k] = arg[Control].id
                     THEN "handler" ELSE "unlock")
  /\ UNCHANGED <<entry, arg, known, handled, calls>>

Handler ==
  /\ pc[Control] = "handler"
  /\ handled' = handled \cup
       {[name |-> arg[Control].name, ns |-> arg[Control].ns, id |-> arg[Control].id]}
  /\ Goto(Control, "unlock")
  /\ UNCHANGED <<entry, lock, arg, known, calls>>

HandleUnlock ==
  /\ pc[Control] = "unlock"
  /\ Unlock(Control)
  /\ Return(Control)
  /\ UNCHANGED <<entry, known, handled, calls>>

-----------------------------------------------------------------------------
\* A thread inside a call, and the control thread inside a message.
ThreadStep(t) ==
  \/ NsLock(t) \/ NsExists(t) \/ NsNext(t) \/ NsAppend(t) \/ NsOut(t)
  \/ CmdLock(t) \/ CmdExists(t) \/ CmdLoop(t) \/ CmdAppend(t)

ControlStep == resolve \/ HandleLock \/ Handler \/ HandleUnlock

Next ==
  \/ \E t \in Thread :
       \/ \E n \in Name : RegisterNamespace(t, n)
       \/ \E k \in known, i \in Id : RegisterCommand(t, k, i)
       \/ ThreadStep(t)
  \/ \E n \in Name \cup {BuiltinName}, i \in Id : ReceiveCommand(n, i)
  \/ ControlStep

Spec == Init /\ [][Next]_vars

\* The threads run, and a thread that waits for the mutex gets it when the others
\* have finished their calls.
FairSpec == Spec /\ WF_vars(ControlStep) /\ \A t \in Thread : WF_vars(ThreadStep(t))

-----------------------------------------------------------------------------
(* Properties *)

Entry == [name : Seq(Nat), cmds : Seq(Nat)]

TypeOK ==
  /\ entry \in Seq(Entry) /\ Len(entry) > 0
  /\ lock \in All \cup {Nobody}
  /\ pc \in [All -> {"idle", "nslock", "nsloop", "nsout", "cmdlock", "cmdloop",
                     "resolve", "handle", "handler", "unlock"}]
  /\ arg \in [All -> [name : Seq(Nat), ns : 0..Len(entry), id : Nat, cur : 0..Len(entry)]]
  /\ \A k \in known : k.ns \in 1..Len(entry)
  /\ calls \in [All -> Nat]

\* However calls of register_namespace interleave, no two registered names match,
\* so a registered name always resolves to its own entry.
NamesUnambiguous ==
  \A i, j \in 1..Len(entry) : i # j => ~Match(entry[i].name, entry[j].name)

\* The pointer that register_namespace returns, read after the mutex is released,
\* is the namespace the caller asked for, whatever was registered meanwhile.
OwnNamespace == \A k \in known : entry[k.ns].name = k.name

\* No command id is registered twice in a namespace.
CommandsUnique ==
  \A e \in 2..Len(entry) : \A i, j \in 1..Len(entry[e].cmds) :
    i # j => entry[e].cmds[i] # entry[e].cmds[j]

\* A handler only runs for a command of its namespace, and the namespace is one
\* that the name in the message matches, at the time of resolving and for ever.
HandledRegistered ==
  \A h \in handled :
    /\ Match(h.name, entry[h.ns].name)
    /\ \E i \in 1..Len(entry[h.ns].cmds) : entry[h.ns].cmds[i] = h.id

\* The comment on the registry: once a pointer is assigned a nonnull value, it
\* must never change.  Entries are only appended.
Extends(s, t) == Len(t) >= Len(s) /\ \A i \in 1..Len(s) : t[i] = s[i]

StablePointers ==
  [][/\ Len(entry') >= Len(entry)
     /\ \A i \in 1..Len(entry) : /\ entry'[i].name = entry[i].name
                                 /\ Extends(entry[i].cmds, entry'[i].cmds)]_vars

\* Every call returns and every message is dealt with, unless some call of
\* register_command loops for ever at the head of a command list.
CallsReturn ==
  \/ <>(\E t \in Thread : Looping(t))
  \/ \A t \in All : pc[t] # "idle" ~> pc[t] = "idle"

(* What the header says and the code does not do *)

\* Header: eventlog_socket_control_register_command registers the command and
\* returns a status, or returns a status if the command is already registered.
RegisterReturns == \A t \in Thread : pc[t] = "cmdloop" ~> pc[t] = "idle"
=============================================================================
