---------------------------- MODULE JobContract ----------------------------
(***************************************************************************)
(* What the jobs API promises a client that polls, with no word on queues, *)
(* sessions or commits.  A job moves only while it is being worked on and  *)
(* only forwards; the answer it ends with is a finished analysis of the    *)
(* job's own document, the same in the job row and in the result payload.  *)
(***************************************************************************)
EXTENDS Naturals

CONSTANTS Jobs, Docs, NoDoc

VARIABLES
  state,    \* what GET /jobs/{id} reports; "absent" is 404
  doc,      \* whose upload of which PDF the job is
  analyses, \* finished analyses, as pairs of an id and a document
  payload,  \* analysis named in the stored result, 0 if none is stored
  answer,   \* analysis_id of the job, 0 if none
  live      \* jobs being worked on

cvars == <<state, doc, analyses, payload, answer, live>>

Init ==
  /\ state = [j \in Jobs |-> "absent"]
  /\ doc = [j \in Jobs |-> NoDoc]
  /\ analyses = {}
  /\ payload = [j \in Jobs |-> 0]
  /\ answer = [j \in Jobs |-> 0]
  /\ live = {}

Accept(j) ==
  /\ state[j] = "absent"
  /\ state' = [state EXCEPT ![j] = "queued"]
  /\ \E d \in Docs : doc' = [doc EXCEPT ![j] = d]
  /\ UNCHANGED <<analyses, payload, answer, live>>

Begin(j) ==
  /\ state[j] # "absent"
  /\ j \notin live
  /\ live' = live \cup {j}
  /\ UNCHANGED <<state, doc, analyses, payload, answer>>

Work(j) ==
  /\ j \in live
  /\ state[j] = "queued"
  /\ state' = [state EXCEPT ![j] = "processing"]
  /\ UNCHANGED <<doc, analyses, payload, answer, live>>

(* A finished analysis of the job's document appears under a fresh id.     *)
NewAnalysis(j) ==
  \E x \in analyses' : /\ x[1] # 0 /\ x[2] = doc[j]
                       /\ \A y \in analyses : y[1] # x[1]
                       /\ analyses' = analyses \cup {x}

Analyse(j) ==
  /\ j \in live
  /\ state[j] = "processing"
  /\ NewAnalysis(j)
  /\ UNCHANGED <<state, doc, payload, answer, live>>

Publish(j) ==
  /\ j \in live
  /\ state[j] = "processing"
  /\ \E x \in analyses : /\ x[2] = doc[j]
                         /\ payload' = [payload EXCEPT ![j] = x[1]]
  /\ UNCHANGED <<state, doc, analyses, answer, live>>

Succeed(j) ==
  /\ j \in live
  /\ state[j] = "processing"
  /\ payload[j] # 0
  /\ state' = [state EXCEPT ![j] = "succeeded"]
  /\ answer' = [answer EXCEPT ![j] = payload[j]]
  /\ UNCHANGED <<doc, analyses, payload, live>>

(* The job fails and is put down in one step.  A job already reported as   *)
(* succeeded can still be overturned as long as it is live: the job        *)
(* timeout may strike between its last commit and its return.  An analysis *)
(* that was ready to be committed is committed with the failure.           *)
Fail(j) ==
  /\ j \in live
  /\ state[j] \in {"queued", "processing", "succeeded"}
  /\ state' = [state EXCEPT ![j] = "failed"]
  /\ live' = live \ {j}
  /\ UNCHANGED analyses \/ NewAnalysis(j)
  /\ UNCHANGED <<doc, payload, answer>>

(* The work ends, or is cut short, with the job as it stands.              *)
PutDown(j) ==
  /\ j \in live
  /\ live' = live \ {j}
  /\ UNCHANGED <<state, doc, analyses, payload, answer>>

Next == \E j \in Jobs :
  Accept(j) \/ Begin(j) \/ Work(j) \/ Analyse(j) \/ Publish(j)
    \/ Succeed(j) \/ Fail(j) \/ PutDown(j)

Spec == Init /\ [][Next]_cvars

----------------------------------------------------------------------------
(* What a client can conclude from it                                      *)

(* A job reported as succeeded, and a result that can be fetched, name one *)
(* finished analysis, and it is of the job's own document.                 *)
AnswersStand ==
  \A j \in Jobs :
    /\ state[j] = "succeeded" => answer[j] # 0 /\ answer[j] = payload[j]
    /\ payload[j] # 0 =>
         \E x \in analyses : x[1] = payload[j] /\ x[2] = doc[j]

(* Ids tell finished analyses apart.                                       *)
IdsTellApart == \A x, y \in analyses : x[1] = y[1] => x = y

(* What the client has seen is not taken back: a job stays that of its     *)
(* document, does not move backwards, keeps an answer it has given, and    *)
(* once put down as ended stays as it is until it is worked on again.      *)
Rank == [absent |-> 0, queued |-> 1, processing |-> 2, succeeded |-> 3,
         failed |-> 4]

NothingIsTakenBack ==
  [][/\ analyses \subseteq analyses'
     /\ \A j \in Jobs :
          /\ Rank[state[j]] <= Rank[state'[j]]
          /\ state[j] # "absent" => doc'[j] = doc[j]
          /\ state[j] \in {"succeeded", "failed"} =>
               answer'[j] = answer[j] /\ payload'[j] = payload[j]
          /\ j \notin live /\ state[j] # "absent" => state'[j] = state[j]
    ]_cvars
=============================================================================
