------------------------------- MODULE Webhook --------------------------------
(***************************************************************************)
(* The completion webhook: one detached task per completed meeting, which  *)
(* POSTs the same signed body up to Attempts times (emit's default is 3)   *)
(* and never raises. The task lives in memory only.                        *)
(***************************************************************************)
EXTENDS Domain

CONSTANTS WebhookURL,   (* is COMPLETION_WEBHOOK_URL set? *)
          Attempts      (* emit's attempts                *)

ASSUME WebhookURLAssumption == WebhookURL \in BOOLEAN
ASSUME AttemptsAssumption == Attempts \in Nat \ {0}

VARIABLES hook,    (* what became of each meeting's webhook task         *)
          tries,   (* POSTs its loop has made                            *)
          posts    (* history: POSTs ever sent on behalf of each meeting *)

hookVars == <<hook, tries, posts>>

HookState == {"none", "sending", "delivered", "failed", "not_scheduled", "lost"}

HookTypeOK ==
    /\ hook \in [Meetings -> HookState]
    /\ tries \in [Meetings -> Nat]
    /\ posts \in [Meetings -> Nat]

HookInit ==
    /\ hook = [m \in Meetings |-> "none"]
    /\ tries = [m \in Meetings |-> 0]
    /\ posts = [m \in Meetings |-> 0]

-------------------------------------------------------------------------------
\* Without a URL nothing is scheduled; an envelope that cannot be built costs only the webhook.
schedule_webhook(m) ==
    /\ \/ WebhookURL /\ hook' = [hook EXCEPT ![m] = "sending"]
       \/ hook' = [hook EXCEPT ![m] = "not_scheduled"]
    /\ tries' = [tries EXCEPT ![m] = 0]
    /\ UNCHANGED posts

Sent(m) ==
    /\ tries' = [tries EXCEPT ![m] = @ + 1]
    /\ posts' = [posts EXCEPT ![m] = @ + 1]

Post2xx(m) ==
    /\ hook[m] = "sending"
    /\ Sent(m)
    /\ hook' = [hook EXCEPT ![m] = "delivered"]

LastAttempt_OffByOne(m) == tries[m] = Attempts

LastAttempt(m) == tries[m] + 1 = Attempts

\* A non-2xx status or an exception: emit sleeps and tries again, or returns False.
PostFails(m) ==
    /\ hook[m] = "sending"
    /\ Sent(m)
    /\ hook' = [hook EXCEPT ![m] = IF LastAttempt(m) THEN "failed" ELSE "sending"]
===============================================================================
