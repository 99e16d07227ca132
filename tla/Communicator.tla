---------------------------- MODULE Communicator ----------------------------
(***************************************************************************)
(* FanOutCommunicator of sglang/srt/managers/communicator.py: one request  *)
(* is sent to fan_out schedulers and the caller waits for all the replies. *)
(* In "queueing" mode the callers take turns on an asyncio.Lock, which is  *)
(* first come, first served; in "watching" mode callers join the request   *)
(* that is in flight.  A step runs from one await to the next.             *)
(*                                                                         *)
(* The lists and events the calls create are named by the call that created*)
(* them.  A scheduler answers its requests in order, so a request and then *)
(* its reply are one entry of the scheduler's pipe.                        *)
(***************************************************************************)
EXTENDS Integers, FiniteSets, Sequences, SequencesExt

CONSTANTS
  Calls,      \* the calls made
  MaxFanOut,  \* bound: schedulers
  None        \* no event, no holder

ASSUME CommunicatorAssumption ==
  /\ MaxFanOut \in Nat \ {0}
  /\ None \notin Calls

Ranks == 1..MaxFanOut

VARIABLES
  mode,            \* _mode: "queueing" or "watching"
  fan_out,         \* _fan_out
  queueing_lock,   \* the waiters of _queueing_lock, first come first
  holder,          \* the call that holds _queueing_lock
  result_event,    \* _result_event and _result_values, by their creator
  result_fan_out,  \* _result_fan_out, or 0
  values,          \* the list each call created
  is_set,          \* the calls whose event is set
  joined,          \* the call whose list and event a waiting call holds
  at,              \* where each call is
  result,          \* what each call returned
  pipe,            \* requests and replies in flight, for each scheduler
  asked            \* history: the calls whose request was sent, in order

commVars == <<mode, fan_out, queueing_lock, holder, result_event, result_fan_out, values,
              is_set, joined, at, result, pipe, asked>>

Reply(rank, c) == [rank |-> rank, call |-> c]

CommInit ==
  /\ mode \in {"queueing", "watching"}
  /\ fan_out \in Ranks
  /\ queueing_lock = <<>> /\ holder = None
  /\ result_event = None /\ result_fan_out = 0
  /\ values = [c \in Calls |-> <<>>] /\ is_set = {}
  /\ joined = [c \in Calls |-> c]
  /\ at = [c \in Calls |-> "new"]
  /\ result = [c \in Calls |-> <<>>]
  /\ pipe = [k \in Ranks |-> <<>>]
  /\ asked = <<>>

-----------------------------------------------------------------------------
(* _send, and the new event and list to collect the replies in.            *)
Send(c) ==
  /\ pipe' = [k \in Ranks |-> IF k <= fan_out THEN Append(pipe[k], c) ELSE pipe[k]]
  /\ asked' = Append(asked, c)
  /\ result_event' = c
  /\ result_fan_out' = fan_out

EnterBypassing(c) ==
  /\ at[c] = "new" /\ mode = "queueing"
  /\ IF holder = None
       THEN /\ holder' = c /\ Send(c)
            /\ at' = [at EXCEPT ![c] = "waiting"]
            /\ UNCHANGED queueing_lock
       ELSE /\ queueing_lock' = Append(queueing_lock, c)
            /\ at' = [at EXCEPT ![c] = "queued"]
            /\ UNCHANGED <<holder, result_event, result_fan_out, pipe, asked>>
  /\ UNCHANGED <<mode, fan_out, values, is_set, joined, result>>

EnterUnlocked(c) ==
  /\ at[c] = "new" /\ mode = "queueing"
  /\ holder' = c /\ Send(c)
  /\ at' = [at EXCEPT ![c] = "waiting"]
  /\ UNCHANGED <<mode, queueing_lock, fan_out, values, is_set, joined, result>>

(* queueing_call: the lock is free and nobody waits for it, or the call    *)
(* joins the queue.                                                        *)
Enter(c) ==
  /\ at[c] = "new" /\ mode = "queueing"
  /\ IF holder = None /\ queueing_lock = <<>>
       THEN /\ holder' = c /\ Send(c)
            /\ at' = [at EXCEPT ![c] = "waiting"]
            /\ UNCHANGED queueing_lock
       ELSE /\ queueing_lock' = Append(queueing_lock, c)
            /\ at' = [at EXCEPT ![c] = "queued"]
            /\ UNCHANGED <<holder, result_event, result_fan_out, pipe, asked>>
  /\ UNCHANGED <<mode, fan_out, values, is_set, joined, result>>

Locked(c) ==
  /\ at[c] = "queued" /\ holder = None /\ Head(queueing_lock) = c
  /\ queueing_lock' = Tail(queueing_lock)
  /\ holder' = c /\ Send(c)
  /\ at' = [at EXCEPT ![c] = "waiting"]
  /\ UNCHANGED <<mode, fan_out, values, is_set, joined, result>>

(* watching_call: a request of one's own, or the one that is there.        *)
Watch(c) ==
  /\ at[c] = "new" /\ mode = "watching"
  /\ IF result_event = None
       THEN Send(c) /\ UNCHANGED joined
       ELSE /\ joined' = [joined EXCEPT ![c] = result_event]
            /\ UNCHANGED <<result_event, result_fan_out, pipe, asked>>
  /\ at' = [at EXCEPT ![c] = "waiting"]
  /\ UNCHANGED <<mode, fan_out, queueing_lock, holder, values, is_set, result>>

ClearsAlways(c) == TRUE

(* After the wait: the list is returned and the shared state cleared, in   *)
(* watching mode only if it is still the one the call waited for.          *)
Clears(c) == mode = "queueing" \/ result_event = joined[c]

Return(c) ==
  /\ at[c] = "waiting" /\ joined[c] \in is_set
  /\ result' = [result EXCEPT ![c] = values[joined[c]]]
  /\ at' = [at EXCEPT ![c] = "returned"]
  /\ result_event' = IF Clears(c) THEN None ELSE result_event
  /\ result_fan_out' = IF Clears(c) THEN 0 ELSE result_fan_out
  /\ holder' = IF holder = c THEN None ELSE holder
  /\ UNCHANGED <<mode, fan_out, queueing_lock, values, is_set, joined, pipe, asked>>

(* The caller is cancelled at its await: only the lock is given up.        *)
CancelCall(c) ==
  /\ \/ /\ at[c] = "queued"
        /\ \E i \in DOMAIN queueing_lock :
             queueing_lock[i] = c /\ queueing_lock' = RemoveAt(queueing_lock, i)
     \/ at[c] = "waiting" /\ UNCHANGED queueing_lock
  /\ at' = [at EXCEPT ![c] = "cancelled"]
  /\ holder' = IF holder = c THEN None ELSE holder
  /\ UNCHANGED <<mode, fan_out, result_event, result_fan_out, values, is_set, joined,
                 result, pipe, asked>>

HandleRecvCurrentFanOut(k) ==
  /\ pipe[k] # <<>>
  /\ pipe' = [pipe EXCEPT ![k] = Tail(@)]
  /\ IF result_event = None
       THEN UNCHANGED <<values, is_set>>
       ELSE /\ values' = [values EXCEPT ![result_event] = Append(@, Reply(k, Head(pipe[k])))]
            /\ is_set' = IF Len(values[result_event]) + 1 = fan_out
                           THEN is_set \cup {result_event} ELSE is_set
  /\ UNCHANGED <<mode, fan_out, queueing_lock, holder, result_event, result_fan_out,
                 joined, at, result, asked>>

(* handle_recv: without an active waiter the reply is dropped.             *)
HandleRecv(k) ==
  /\ pipe[k] # <<>>
  /\ pipe' = [pipe EXCEPT ![k] = Tail(@)]
  /\ IF result_event = None
       THEN UNCHANGED <<values, is_set>>
       ELSE /\ values' = [values EXCEPT ![result_event] = Append(@, Reply(k, Head(pipe[k])))]
            /\ is_set' = IF Len(values[result_event]) + 1 = result_fan_out
                           THEN is_set \cup {result_event} ELSE is_set
  /\ UNCHANGED <<mode, fan_out, queueing_lock, holder, result_event, result_fan_out,
                 joined, at, result, asked>>

(* set_fan_out: the number of workers changes at run time.                 *)
SetFanOut(n) ==
  /\ fan_out' = n
  /\ UNCHANGED <<mode, queueing_lock, holder, result_event, result_fan_out, values,
                 is_set, joined, at, result, pipe, asked>>

-----------------------------------------------------------------------------
Step(c) == Enter(c) \/ Locked(c) \/ Watch(c) \/ Return(c)

CommNext ==
  \/ \E c \in Calls : Step(c) \/ CancelCall(c)
  \/ \E k \in Ranks : HandleRecv(k) \/ SetFanOut(k)

(* The event loop runs every ready call, and every scheduler answers.      *)
CommFairness ==
  /\ \A c \in Calls : WF_commVars(Step(c))
  /\ \A k \in Ranks : WF_commVars(HandleRecv(k))

CommSpec == CommInit /\ [][CommNext]_commVars /\ CommFairness

-----------------------------------------------------------------------------
(* In queueing mode a cancelled caller leaves its request in flight, and    *)
(* the next caller may collect the replies to it.                          *)
Undisturbed == mode = "watching" \/ \A c \in Calls : at[c] # "cancelled"

(* "Only one request is in-flight at any time in either mode": whatever is *)
(* on its way to or from the schedulers belongs to one call (until a caller*)
(* in queueing mode is cancelled).                                         *)
OneInFlight ==
  Undisturbed => Cardinality(UNION {ToSet(pipe[k]) : k \in Ranks}) <= 1

(* A call returns the replies to the request it sent or joined, one from   *)
(* each scheduler the request went to, also when the number of schedulers  *)
(* changes while it waits, and a watcher also when others are cancelled.   *)
OwnReplies ==
  \A c \in Calls : at[c] = "returned" /\ Undisturbed =>
    /\ result[c] # <<>>
    /\ \A i \in DOMAIN result[c] : result[c][i].call = joined[c]
    /\ {result[c][i].rank : i \in DOMAIN result[c]} = 1..Len(result[c])
    /\ \A k \in Ranks : joined[c] \notin ToSet(pipe[k])

(* "strictly serialized in arrival order": a call that arrives never       *)
(* overtakes one that is queued, not even between a release of the lock and*)
(* the wake-up of the next in line.                                        *)
ArrivalOrder ==
  [][\A c, d \in Calls :
       at[c] = "queued" /\ at[d] = "new" => ~(d \in ToSet(asked') /\ c \notin ToSet(asked'))]_commVars

(* Every call returns unless it is cancelled, and a cancelled one never    *)
(* blocks the callers queued behind it.                                    *)
CallsReturn == \A c \in Calls : at[c] # "new" ~> at[c] \in {"returned", "cancelled"}
=============================================================================
