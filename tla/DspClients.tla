----------------------------- MODULE DspClients -----------------------------
(***************************************************************************)
(* The two clients of the bridge that bring their own protocol: the image  *)
(* post-processing element and the dummy element.  They share no state;    *)
(* which says the one that runs.                                           *)
(***************************************************************************)
EXTENDS DspIpp

CONSTANTS Builds, MaxFaults, MaxStarts   \* of DspDummy

ASSUME ClientsAssumption ==
  /\ Builds \subseteq [heap : BOOLEAN, sm : BOOLEAN]
  /\ MaxFaults \in Nat /\ MaxStarts \in Nat

VARIABLES which, build, state, d, dnode, bufs, error, chain, busy, faults, starts,
          left

dvars == <<build, state, d, dnode, bufs, error, chain, busy, faults, starts, left>>

Dummy == INSTANCE DspDummy WITH node <- dnode

(* The element that does not run stays as it was created. *)
ClientsInit ==
  /\ Init /\ Dummy!Init /\ which \in {"ipp", "dummy"}
  /\ which = "dummy" => conf = CHOOSE c \in Confs : TRUE
  /\ which = "ipp" => build = CHOOSE b \in Builds : TRUE

ClientsNext ==
  \/ which = "ipp" /\ Next /\ UNCHANGED <<which, dvars>>
  \/ which = "dummy" /\ Dummy!Next /\ UNCHANGED <<which, vars>>

ClientsSpec == /\ ClientsInit /\ [][ClientsNext]_<<which, vars, dvars>>
               /\ Fairness /\ Dummy!Fairness

-----------------------------------------------------------------------------
TypesOK == TypeOK /\ Dummy!TypeOK

(* Both clients give back what they took; the dummy element hands the      *)
(* bridge nothing that it does not hold.                                   *)
ClientsReleaseAll ==
  IppReleasesAll /\ Dummy!DummyReleasesAll /\ Dummy!BridgeUsedWell
=============================================================================
