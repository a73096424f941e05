---------------------------- MODULE MCDeployment ----------------------------
(***************************************************************************)
(* Instances for TLC of what is run from a shell: the API's process, and   *)
(* the commands that seed its database.  A behaviour is of one of the two. *)
(***************************************************************************)
EXTENDS ServerProcess, Seeds

VARIABLE part

(* Of the small seed the Author, a Client and a Question; of the hosted one the
   Question too, and then one that names a Client nobody seeds; two Questions
   of the bulk bank. *)
SomeParts ==
    [k \in {"author", "client", "question", "misspelled", "neverSeeded", "bulk1", "bulk2"} |->
        CASE k = "question" -> {"tag", "client", "upvote"}
          [] k \in {"bulk1", "bulk2"} -> {"tag", "upvote"}
          [] OTHER -> {}]

SomeNeeds ==
    [k \in DOMAIN SomeParts |->
        CASE k = "question" -> {"author", "client"}
          [] k = "misspelled" -> {"author", "neverSeeded"}
          [] OTHER -> {}]

SomeUpserts ==
    [small |-> <<"author", "client", "question">>,
     hosted |-> <<"author", "client", "question", "misspelled">>,
     bulk |-> <<"author", "client">>]

BulkBank == <<"bulk1", "bulk2">>

PeoplesOwn == {"author", "client"}

allVars == <<processVars, seedVars, part>>

MCInit == ProcessInit /\ SeedsInit /\ part \in {"process", "seeds"}

MCNext ==
    /\ UNCHANGED part
    /\ \/ part = "process" /\ ProcessNext /\ UNCHANGED seedVars
       \/ part = "seeds" /\ SeedsNext /\ UNCHANGED processVars

MCSpec == MCInit /\ [][MCNext]_allVars /\ (part = "process" => ProcessFairness)
=============================================================================
