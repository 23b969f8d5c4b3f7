-------------------------- MODULE MCSoulVaultSwarm --------------------------
(* Instances of SoulVaultSwarm for TLC.  A behaviour draws a focus at the   *)
(* start, the calls it takes and the lengths it reaches: the calls it       *)
(* leaves out do not touch the state that its calls read.                   *)
EXTENDS SoulVaultSwarm, TLC

CONSTANTS MaxEvents, MaxSigned   \* longest log, most signatures an instance explores

VARIABLE focus

Within(requests, log) == nextRequestId <= requests + 1 /\ Cardinality(events) <= log

-----------------------------------------------------------------------------
(* Members come and go, the epoch jumps ahead, and members post.  "roster"  *)
(* goes further with the first two alone.                                   *)
RosterNext ==
    \E c \in Account :
      \/ MembershipCalls(c)
      \/ \E e \in Epoch, b \in Ref, h \in Hash, v \in Version : RotateEpoch(c, e, b, h, v)

MessageNext ==
    \E c \in Account :
      \/ \E m \in Account, r \in Ref, e \in Epoch : UpdateMemberFileMapping(c, m, r, e)
      \/ \E n \in Seq, e \in Epoch : PostMessage(c, n, e)

MemberInit == Init /\ treasury = NoAddress /\ focus \in {"roster", "messages"}

MemberNext ==
    /\ UNCHANGED focus
    /\ \/ RosterNext
       \/ focus = "messages" /\ MessageNext

MemberSpec == MemberInit /\ [][MemberNext]_<<vars, focus>>

(* Messages do not depend on which key a member has.                        *)
OneKey == Cardinality({joinRequests[id].pubkey : id \in RequestId} \ {NoPubkey}) <= 1

MemberBound ==
    CASE focus = "roster"   -> Within(3, MaxEvents)
      [] focus = "messages" -> Within(2, MaxEvents) /\ OneKey

-----------------------------------------------------------------------------
(* The owner signs intents for others to submit, among the direct calls on  *)
(* the roster; "every call" has the other calls too and one of each thing.  *)
SignedInit ==
    /\ Init
    /\ focus \in {"signed", "every call"}
    /\ focus = "signed" => treasury = NoAddress

SignedNext ==
    /\ UNCHANGED focus
    /\ \/ focus = "signed" /\ (RosterNext \/ SignedCalls)
       \/ focus = "every call" /\ Next

SignedSpec == SignedInit /\ [][SignedNext]_<<vars, focus>>

(* A rotation signed to an epoch that is not later can never land.          *)
Landable(intent) == intent.op = "RotateEpoch" => intent.fromEpoch < intent.toEpoch

SignedBound ==
    CASE focus = "signed"     -> /\ Cardinality(signed) <= MaxSigned /\ Cardinality(events) <= 1
                                 /\ \A s \in signed : Landable(s.intent)
      [] focus = "every call" -> /\ Within(1, 1) /\ currentEpoch <= 1 /\ ownerNonce <= 1
                                 /\ now = 0 /\ Cardinality(signed) + Cardinality(events) <= 1

(* The type invariant, in every state that is reached.                      *)
Typed == Assert(TypeOK, "TypeOK")

Symmetry == Permutations(Account \ {Owner}) \cup Permutations(Pubkey)
              \cup Permutations(Ref) \cup Permutations(Hash)
=============================================================================
