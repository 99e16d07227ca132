----------------------------- MODULE KVChannels -----------------------------
(***************************************************************************)
(* What the two sides of a prefill-to-decode KV transfer share (mooncake   *)
(* backend): the status of a room and the messages between the ranks.      *)
(*                                                                         *)
(* One bootstrap room is modelled.  It is used once or several times, one  *)
(* request after the other; "use" numbers the requests, and stands for the *)
(* pages that the decode ranks allocate to each.  ZMQ delivers the messages*)
(* of one sender to one receiver in order, and may lose some.              *)
(***************************************************************************)
EXTENDS Integers, FiniteSets, Sequences, SequencesExt

CONSTANTS
  Prefills,  \* the prefill ranks
  Decodes,   \* the decode ranks
  None,      \* no rank, no status
  Setups     \* the deployments that are checked

ASSUME ChannelsAssumption ==
  /\ None \notin Prefills \cup Decodes
  /\ \A s \in Setups : s.prefills \subseteq Prefills /\ s.decodes \subseteq Decodes

VARIABLES
  setup,       \* the deployment: ranks, chunks of a prompt, uses of the room, faults
  use,         \* the request that uses the room, numbered from 1
  to_prefill,  \* messages under way from a decode rank to a prefill rank
  to_decode,   \* messages under way from a prefill rank to a decode rank
  lost         \* history: a message was lost

channelVars == <<setup, use, to_prefill, to_decode, lost>>

P == setup.prefills
D == setup.decodes
Uses == 1..setup.uses

(* KVPoll.                                                                 *)
Failed == 0
Bootstrapping == 1
WaitingForInput == 2
Transferring == 3
Success == 4
Absent == 5  \* the room is not in request_status
Statuses == 0..5

(* update_status: Failed never brings a room back and overrides every      *)
(* status; any other status only moves the room forward, from Failed too.  *)
UpdateStatus(old, new) ==
  CASE old = Absent -> IF new = Failed THEN Absent ELSE new
    [] old # Absent /\ new = Failed -> Failed
    [] OTHER -> IF new > old THEN new ELSE old

(* The result of the MIN all-reduce over the ranks of a group.             *)
AllReduce(poll, ranks) == CHOOSE s \in Statuses :
  (\E r \in ranks : poll[r] = s) /\ (\A r \in ranks : s <= poll[r])

Metadata(u) == [kind |-> "metadata", use |-> u]
Message(kind) == [kind |-> kind, use |-> 0]
Messages == [kind : {"metadata", "ABORT", "ABORT_ACK", "Success", "Failed"}, use : Nat]

ChannelsInit ==
  /\ setup \in Setups
  /\ use = 0
  /\ to_prefill = [p \in Prefills |-> [d \in Decodes |-> <<>>]]
  /\ to_decode = [d \in Decodes |-> [p \in Prefills |-> <<>>]]
  /\ lost = FALSE

(* The channels after rank p sent one message to every decode rank in ds.  *)
SendToDecodes(p, ds, m) ==
  [d \in Decodes |-> IF d \in ds THEN [to_decode[d] EXCEPT ![p] = Append(@, m)]
                                 ELSE to_decode[d]]

(* The channels after every decode rank in ds sent m to all prefill ranks. *)
SendToPrefills(ds, m) ==
  [p \in Prefills |-> [d \in Decodes |->
    IF p \in P /\ d \in ds THEN Append(to_prefill[p][d], m) ELSE to_prefill[p][d]]]

(* ABORT and ABORT_ACK are sent best effort.                               *)
Lose(p, d) ==
  /\ setup.lossy
  /\ \/ /\ to_prefill[p][d] # <<>> /\ Head(to_prefill[p][d]).kind = "ABORT"
        /\ to_prefill' = [to_prefill EXCEPT ![p][d] = Tail(@)]
        /\ UNCHANGED to_decode
     \/ /\ to_decode[d][p] # <<>> /\ Head(to_decode[d][p]).kind = "ABORT_ACK"
        /\ to_decode' = [to_decode EXCEPT ![d][p] = Tail(@)]
        /\ UNCHANGED to_prefill
  /\ lost' = TRUE
  /\ UNCHANGED <<setup, use>>
=============================================================================
