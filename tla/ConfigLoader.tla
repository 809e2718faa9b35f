---------------------------- MODULE ConfigLoader ----------------------------
(***************************************************************************)
(* MoveItConfigLoader: load() copies the parameters that match some        *)
(* prefixes from a source node (move_group) to the node it was given, in   *)
(* batches, all of it before one deadline.  The source starts, restarts,   *)
(* answers and changes its parameters in between.  A name is the sequence  *)
(* of its parts between dots; of time only "the deadline has passed" is    *)
(* kept.                                                                   *)
(***************************************************************************)
EXTENDS Integers, Sequences, SequencesExt

CONSTANTS
  Names,       \* the source's parameters, in the order it lists them
  ParameterPrefixes,  \* parameter_prefixes
  BatchSize,   \* kParameterBatchSize
  Values, NoValue, Undeclared,
  TypeOf,      \* the type of each value
  Launched,    \* the values parameters may have from the start
  MaxLoads,    \* bound: calls of load()
  MaxChanges   \* bound: changes and ends of the source

Params == ToSet(Names)

\* The names that are in S, in their order.
Selected(names, S) ==
  LET selected[n \in 0..Len(names)] ==
        IF n = 0 THEN <<>>
        ELSE IF names[n] \in S THEN Append(selected[n - 1], names[n]) ELSE selected[n - 1]
  IN selected[Len(names)]

ASSUME ConfigLoaderAssumption ==
  /\ Names \in Seq(Params) /\ BatchSize \in Nat \ {0} /\ MaxLoads \in Nat /\ MaxChanges \in Nat
  /\ Launched \subseteq Values
  /\ NoValue \notin Values /\ Undeclared \notin Values \cup {NoValue}

VARIABLES
  source,   \* "absent", "graph": seen but without services, or "up"
  value,    \* its parameters
  changes,
  ok,       \* rclcpp::ok()
  pc,       \* where load() is
  expired,  \* remaining(deadline) = 0
  call,     \* the service call whose future load() waits for
  answer,   \* what the future holds: the names, or the values by name
  todo,     \* the calls of fetch() to come, outer ones last
  target,   \* the parameters of node_
  result,   \* what the last load() returned
  loads,
  steady    \* history: parameters that have not changed since load() was called

origin == <<source, value, changes, ok>>
future == <<call, answer>>
vars   == <<origin, pc, expired, future, todo, target, result, loads, steady>>

Init ==
  /\ source = "absent" /\ value \in [Params -> Launched \cup {NoValue}]
  /\ changes = 0 /\ ok = TRUE
  /\ pc = "idle" /\ expired = FALSE /\ call = "none" /\ answer = <<>> /\ todo = <<>>
  /\ target = [p \in Params |-> Undeclared] /\ result = FALSE
  /\ loads = 0 /\ steady = {}

-----------------------------------------------------------------------------
(* load().                                                                 *)

Load ==
  /\ pc = "idle" /\ loads < MaxLoads
  /\ pc' = "wait_node" /\ expired' = FALSE
  /\ loads' = loads + 1 /\ steady' = Params
  /\ UNCHANGED <<origin, future, todo, target, result>>

Expire ==
  /\ pc # "idle" /\ ~expired /\ expired' = TRUE
  /\ UNCHANGED <<origin, pc, future, todo, target, result, loads, steady>>

Return(success) ==
  /\ pc' = "idle" /\ result' = success
  /\ call' = "none" /\ answer' = <<>> /\ todo' = <<>>
  /\ UNCHANGED <<origin, expired, target, loads, steady>>

\* Sent to a source without services a request is lost.
Sent == IF source = "up" THEN "sent" ELSE "lost"

\* The node is looked for until the deadline or Ctrl-C.
WaitForNode ==
  /\ pc = "wait_node"
  /\ \/ /\ expired \/ ~ok
        /\ Return(FALSE)
     \/ /\ ~expired /\ ok /\ source # "absent"
        /\ pc' = "wait_service"
        /\ UNCHANGED <<origin, expired, future, todo, target, result, loads, steady>>

\* Then for its services; when they are there it is asked for its names.
WaitForService ==
  /\ pc = "wait_service"
  /\ \/ /\ source # "up" /\ (expired \/ ~ok)
        /\ Return(FALSE)
     \/ /\ source = "up"
        /\ pc' = "list" /\ call' = Sent
        /\ UNCHANGED <<origin, expired, answer, todo, target, result, loads, steady>>

\* Mutant: only the list is waited for until the deadline.
TimeOut_List ==
  /\ pc = "list" /\ call \in {"sent", "lost"} /\ expired
  /\ Return(FALSE)

\* A future that is ready is taken even after the deadline; for any other the
\* wait is over, in fetch() with all calls that were to come.
TimeOut ==
  /\ pc \in {"list", "fetch"} /\ call \in {"sent", "lost"} /\ expired
  /\ Return(FALSE)

\* matches_prefix(): "a" and "a.b" match "a", "ab" does not.
MatchesPrefix(name) == \E prefix \in ParameterPrefixes : IsPrefix(prefix, name)

\* Mutant: batches overlap by one.
Batches_OneMore(wanted) ==
  [i \in 1..((Len(wanted) + BatchSize - 1) \div BatchSize) |->
     SubSeq(wanted, (i - 1) * BatchSize + 1,
            IF i * BatchSize + 1 < Len(wanted) THEN i * BatchSize + 1 ELSE Len(wanted))]

Batches(wanted) ==
  [i \in 1..((Len(wanted) + BatchSize - 1) \div BatchSize) |->
     SubSeq(wanted, (i - 1) * BatchSize + 1,
            IF i * BatchSize < Len(wanted) THEN i * BatchSize ELSE Len(wanted))]

\* The names have arrived.
Filter ==
  /\ pc = "list" /\ call = "answered"
  /\ LET wanted == Selected(answer, {p \in Params : MatchesPrefix(p)})
     IN IF wanted = <<>>
          THEN Return(FALSE)
          ELSE /\ pc' = "fetch" /\ todo' = Batches(wanted)
               /\ call' = "none" /\ answer' = <<>>
               /\ UNCHANGED <<origin, expired, target, result, loads, steady>>

\* fetch() of the next batch.
Ask ==
  /\ pc = "fetch" /\ call = "none" /\ todo # <<>>
  /\ call' = Sent
  /\ UNCHANGED <<origin, pc, expired, answer, todo, target, result, loads, steady>>

Whole == DOMAIN answer = ToSet(Head(todo))

Fetched == /\ pc = "fetch" /\ call = "answered"
           /\ call' = "none" /\ answer' = <<>>
           /\ UNCHANGED <<origin, pc, expired, result, loads, steady>>

\* Mutant: a parameter that is there already is left alone.
DeclareIfNeeded_Once(parameters) == target' = [p \in Params |->
  IF target[p] = Undeclared /\ p \in DOMAIN parameters THEN parameters[p] ELSE target[p]]

\* A parameter of node_ keeps the type of the value it was declared with ...
Settable(p, v) == target[p] = Undeclared \/ TypeOf[target[p]] = TypeOf[v]

\* ... so in declare_if_needed() set_parameter() refuses a value of another type,
\* and its result is not looked at.
DeclareIfNeeded(parameters) == target' = [p \in Params |->
  IF p \in DOMAIN parameters /\ Settable(p, parameters[p]) THEN parameters[p] ELSE target[p]]

TakeWhole ==
  /\ Fetched /\ Whole
  /\ DeclareIfNeeded(answer) /\ todo' = Tail(todo)

\* A single parameter without a value.
Skip ==
  /\ Fetched /\ ~Whole /\ Len(Head(todo)) = 1
  /\ todo' = Tail(todo) /\ UNCHANGED target

\* A batch with such a parameter in it is fetched half by half.
Halve ==
  /\ Fetched /\ ~Whole /\ Len(Head(todo)) > 1
  /\ LET batch  == Head(todo)
         middle == Len(batch) \div 2
     IN todo' = <<SubSeq(batch, 1, middle), SubSeq(batch, middle + 1, Len(batch))>> \o Tail(todo)
  /\ UNCHANGED target

\* Everything has been asked for, whether anything was imported or not.
Finish ==
  /\ pc = "fetch" /\ call = "none" /\ todo = <<>>
  /\ Return(TRUE)

-----------------------------------------------------------------------------
(* The source, and this process's spinner, which receives its answers.     *)

Appear ==
  /\ \/ source = "absent" /\ source' = "graph"
     \/ source = "graph" /\ source' = "up"
  /\ UNCHANGED <<value, changes, ok, pc, expired, future, todo, target, result, loads, steady>>

Vanish ==
  /\ source # "absent" /\ changes < MaxChanges
  /\ source' = "absent" /\ changes' = changes + 1
  /\ call' = IF call = "sent" THEN "lost" ELSE call
  /\ UNCHANGED <<value, ok, pc, expired, answer, todo, target, result, loads, steady>>

Change ==
  /\ changes < MaxChanges /\ changes' = changes + 1
  /\ \E p \in Params, v \in Values \cup {NoValue, Undeclared} :
       /\ v # value[p]
       /\ value' = [value EXCEPT ![p] = v] /\ steady' = steady \ {p}
  /\ UNCHANGED <<source, ok, pc, expired, future, todo, target, result, loads>>

ListParameters == Selected(Names, {p \in Params : value[p] # Undeclared})

\* All the values, or none when one is missing.
GetParameters(batch) ==
  IF \A p \in ToSet(batch) : value[p] \in Values
    THEN [p \in ToSet(batch) |-> value[p]] ELSE <<>>

Serve ==
  /\ ok /\ source = "up" /\ call = "sent" /\ call' = "answered"
  /\ answer' = IF pc = "list" THEN ListParameters ELSE GetParameters(Head(todo))
  /\ UNCHANGED <<origin, pc, expired, todo, target, result, loads, steady>>

CtrlC ==
  /\ ok /\ ok' = FALSE
  /\ UNCHANGED <<source, value, changes, pc, expired, future, todo, target, result, loads, steady>>

Loader == \/ WaitForNode \/ WaitForService \/ TimeOut \/ Filter
          \/ Ask \/ TakeWhole \/ Skip \/ Halve \/ Finish

Next == Load \/ Expire \/ Loader \/ Appear \/ Vanish \/ Change \/ Serve \/ CtrlC

\* load() runs and time passes; nothing is expected of the source.
Spec == Init /\ [][Next]_vars /\ WF_vars(Loader) /\ WF_vars(Expire)

-----------------------------------------------------------------------------
TypeOK ==
  /\ source \in {"absent", "graph", "up"}
  /\ value \in [Params -> Values \cup {NoValue, Undeclared}]
  /\ target \in [Params -> Values \cup {Undeclared}]
  /\ pc \in {"idle", "wait_node", "wait_service", "list", "fetch"}
  /\ call \in {"none", "sent", "lost", "answered"}
  /\ {ok, expired, result} \subseteq BOOLEAN
  /\ \A batch \in ToSet(todo) : batch \in Seq(Params) /\ Len(batch) \in 1..BatchSize
  /\ steady \subseteq Params /\ loads \in 0..MaxLoads /\ changes \in 0..MaxChanges

\* The target has the source's value of p, or p has stood there with a value of
\* another type since an earlier load.
UpToDate(p) == target[p] = value[p] \/ ~Settable(p, value[p])

\* When load() returns true, every parameter that matches and has kept its value is
\* up to date on the target, whatever the parameters around it in its batch did and
\* however far an earlier load() had come. "Copy every parameter matching the
\* configured prefixes" is more than that: where the type differs, nothing is copied.
LoadIsComplete ==
  [][pc = "fetch" /\ pc' = "idle" /\ result'
       => \A p \in steady : MatchesPrefix(p) /\ value[p] \in Values => UpToDate(p)']_vars

\* load() returns, whenever the source or this process goes away: one deadline
\* ends each of its waits.
LoadEnds == pc # "idle" ~> pc = "idle"
=============================================================================
