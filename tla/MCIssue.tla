------------------------------- MODULE MCIssue -------------------------------
(***************************************************************************)
(* One issue from the files it starts with to the feedback it leaves,      *)
(* model-checked in one run: the coordinator, the source attachments, the  *)
(* developer's work in git and the playbook feedback, each at a level of   *)
(* detail of its own and with a state of its own.  The state space is      *)
(* their sum: a behaviour picks one of them in its first state and runs    *)
(* that one only, the others staying where they start.                     *)
(***************************************************************************)
EXTENDS Coordinator, DeveloperEffect, PlaybookFeedback, SourceAttachments

VARIABLE part

lifeVars == <<part, vars, devVars, fbVars, srcVars>>

\* The first state of a part that is not explored
CoordinatorRests == autoMerge = TRUE
FbRests ==
  /\ choice = [h \in FbAction |-> "absent"] /\ recurring = FALSE
  /\ profile = [s \in FbSession |-> "bare"]
SrcRests == liveRows = {}

LifeInit ==
  /\ part \in {"coordinator", "developer", "feedback", "sources"}
  /\ Init /\ (part # "coordinator" => CoordinatorRests)
  /\ DevInit
  /\ FbInit /\ (part # "feedback" => FbRests)
  /\ SrcInit /\ (part # "sources" => SrcRests)

LifeNext ==
  /\ UNCHANGED part
  /\ \/ /\ part = "coordinator" /\ Next
        /\ UNCHANGED <<devVars, fbVars, srcVars>>
     \/ /\ part = "developer" /\ DevNext
        /\ UNCHANGED <<vars, fbVars, srcVars>>
     \/ /\ part = "feedback" /\ FbNext
        /\ UNCHANGED <<vars, devVars, srcVars>>
     \/ /\ part = "sources" /\ SrcNext
        /\ UNCHANGED <<vars, devVars, fbVars>>

LifeSpec == LifeInit /\ [][LifeNext]_lifeVars
=============================================================================
