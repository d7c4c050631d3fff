------------------------------ MODULE Ingestion ------------------------------
(***************************************************************************)
(* POST /api/v1/notifications: Handler.Ingest and Service.Submit.  Each    *)
(* request runs in its own goroutine and makes up to three calls: upsert   *)
(* the row, publish the trigger when the row is new, read the row back for *)
(* the answer.                                                             *)
(*                                                                         *)
(* A request that Ingest or validateSchema rejects (400, 422) reads no     *)
(* table and changes none: such requests are stuttering steps, so every    *)
(* request here carries a registered event and a valid payload.            *)
(***************************************************************************)
EXTENDS Broker

CONSTANTS
  Handler,      \* request goroutines that may run at the same time
  MaxSubmits    \* bound: requests sent by clients

ASSUME IngestionAssumption == MaxSubmits \in Nat

VARIABLES
  hpc,          \* next call of the request: "idle", "publish" or "reply"
  hn,           \* the id that the upsert returned
  submits,      \* requests sent so far
  accepted      \* history: notifications some request answered with 202

ingestionVars == <<hpc, hn, submits, accepted>>

IngestionTypeOK ==
  /\ hpc \in [Handler -> {"idle", "publish", "reply"}]
  /\ hn \in [Handler -> Notif \cup {None}]
  /\ submits \in Nat
  /\ accepted \subseteq Notif

IngestionInit ==
  /\ hpc = [h \in Handler |-> "idle"]
  /\ hn = [h \in Handler |-> None]
  /\ submits = 0
  /\ accepted = {}

-----------------------------------------------------------------------------
(* The request's goroutine ends, or goes on to the call named pc. *)
HandlerGoes(h, pc, n) ==
  /\ hpc' = [hpc EXCEPT ![h] = pc]
  /\ hn' = [hn EXCEPT ![h] = IF pc = "idle" THEN None ELSE n]

(***************************************************************************)
(* Ingest up to and including the upsert.  A failed upsert answers 503.    *)
(***************************************************************************)
Submit(h, n, e) ==
  /\ hpc[h] = "idle"
  /\ submits < MaxSubmits
  /\ submits' = submits + 1
  /\ \E r \in DbAnswer :
       /\ UpsertNotification(n, e, r)
       /\ HandlerGoes(h, IF r # "ok" THEN "idle"
                         ELSE IF IsNew(n) THEN "publish" ELSE "reply", n)
  /\ UNCHANGED <<brokerVars, accepted>>

(* An error of PublishTrigger is only logged. *)
SubmitPublish(h) ==
  /\ hpc[h] = "publish"
  /\ \E ok \in BOOLEAN : PublishTrigger(hn[h], ok)
  /\ HandlerGoes(h, "reply", hn[h])
  /\ UNCHANGED <<storeVars, submits, accepted>>

(* GetByID: 202 with the row, or 503 when the query fails. *)
SubmitReply(h) ==
  /\ hpc[h] = "reply"
  /\ \E r \in ReadAnswer :
       /\ GetNotification(r)
       /\ accepted' = IF r = "ok" THEN accepted \cup {hn[h]} ELSE accepted
  /\ HandlerGoes(h, "idle", None)
  /\ UNCHANGED <<brokerVars, submits>>

IngestionCrash ==
  /\ hpc' = [h \in Handler |-> "idle"]
  /\ hn' = [h \in Handler |-> None]
  /\ UNCHANGED <<submits, accepted>>

HandlerStep(h) == SubmitPublish(h) \/ SubmitReply(h)
=============================================================================
