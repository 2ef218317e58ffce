------------------------------- MODULE Stripe -------------------------------
(***************************************************************************)
(* wwstripe/wwstripe.go: the processes of a deployment share the webhook   *)
(* endpoints that Stripe keeps for one URL.  MigrateWebhook looks at the   *)
(* endpoints and brings the first one up to date, in a goroutine that      *)
(* Client waits for; CreateWebhook looks and adds one; an operator may     *)
(* disable one.  Each looks with one request and writes with another.      *)
(* Stripe lists endpoints newest first, and repeats the delivery of an     *)
(* event until it is answered with 200.                                    *)
(*                                                                         *)
(* The WaitGroup of Client: when its counter comes to zero it releases who *)
(* waits; who finds it above zero again before leaving panics.  An Add in  *)
(* the instants within Done panics itself, which either ends the process   *)
(* (Restart) or changes nothing.                                           *)
(***************************************************************************)
EXTENDS Naturals, Sequences, SequencesExt

CONSTANTS Process, Version,
          EventTypes,     \* the lists of event types that endpoints may be for
          EventsOf,       \* EventsOf[p]: the event types p subscribes to
          VersionOf,      \* VersionOf[p]: the API version of p's SDK
          HasSecret,      \* the processes with a STRIPE_WEBHOOK_SECRET
          UsesClient,     \* the processes whose onFail calls Client
          Former,         \* the lists of endpoints that earlier deployments may have left
          Event,          \* events that happen at Stripe
          MaxEndpoints    \* bound: endpoints ever created

Endpoint == [enabled : BOOLEAN, events : EventTypes, version : Version]

ASSUME StripeAssumption == /\ EventsOf \in [Process -> EventTypes]
                           /\ \A list \in EventTypes : list \in Seq(ToSet(list))
                           /\ VersionOf \in [Process -> Version]
                           /\ Former \subseteq Seq(Endpoint)
                           /\ HasSecret \subseteq Process /\ UsesClient \subseteq Process
                           /\ MaxEndpoints \in Nat

VARIABLES endpoints,   \* the endpoints of the URL, oldest first
          migration,   \* migration[p]: "none", "listing", "updating", "failing", "done"
          target,      \* target[p]: the endpoint p's migration will update
          creating,    \* the processes whose CreateWebhook saw no endpoint
          client,      \* client[p]: a caller of p's Client, "waiting" and "released" in it
          delivery,    \* delivery[e]: "pending", "handling", "answered" or "acked"
          processed    \* the events that onWebhook processed

hookVars == <<endpoints, migration, target, creating, client>>
eventVars == <<delivery, processed>>
vars == <<hookVars, eventVars>>

TypeOK == /\ endpoints \in Seq(Endpoint)
          /\ migration \in [Process -> {"none", "listing", "updating", "failing", "done"}]
          /\ target \in [Process -> 0..Len(endpoints)]
          /\ creating \subseteq Process
          /\ client \in [Process -> {"idle", "waiting", "released", "has", "panicked"}]
          /\ delivery \in [Event -> {"pending", "handling", "answered", "acked"}]
          /\ processed \subseteq Event

Init == /\ endpoints \in Former
        /\ migration = [p \in Process |-> "none"]
        /\ target = [p \in Process |-> 0]
        /\ creating = {}
        /\ client = [p \in Process |-> "idle"]
        /\ delivery = [e \in Event |-> "pending"]
        /\ processed = {}

-----------------------------------------------------------------------------
EventsMatch(a, b) == Len(a) = Len(b) /\ \A x \in ToSet(a) : x \in ToSet(b)

(* The counter of webhookWg is above zero.                                 *)
Counts(p) == migration[p] \notin {"none", "done"}

MigrateWebhook(p) == /\ ~Counts(p)
                     /\ migration' = [migration EXCEPT ![p] = "listing"]
                     /\ UNCHANGED <<endpoints, target, creating, client, eventVars>>

(* A migration that comes to its end is done with webhookWg.               *)
GoesTo(p, stage) ==
  /\ migration' = [migration EXCEPT ![p] = stage]
  /\ client' = IF stage = "done" /\ client[p] = "waiting"
               THEN [client EXCEPT ![p] = "released"] ELSE client

Listed == Last(endpoints)
Subscribed(p, we) == we.enabled /\ EventsMatch(we.events, EventsOf[p]) /\ we.version = VersionOf[p]

(* The end of a migration that found or made everything as it should be.   *)
SecretOr(p) == IF p \in HasSecret THEN "done" ELSE "failing"

AfterListing(p) == IF endpoints = <<>> THEN "failing"
                   ELSE IF Subscribed(p, Listed) THEN SecretOr(p)
                   ELSE IF Listed.version # VersionOf[p] THEN "failing"
                   ELSE "updating"

ListWebhookEndpoints(p) ==
  /\ migration[p] = "listing"
  /\ GoesTo(p, AfterListing(p))
  /\ target' = [target EXCEPT ![p] = Len(endpoints)]
  /\ UNCHANGED <<endpoints, creating, eventVars>>

(* Mutant: the endpoint keeps its events.                                  *)
OnlyEnabled(we, p) == [we EXCEPT !.enabled = TRUE]

Updated(we, p) == [we EXCEPT !.enabled = TRUE, !.events = EventsOf[p]]

UpdateWebhookEndpoint(p) ==
  /\ migration[p] = "updating"
  /\ endpoints' = [endpoints EXCEPT ![target[p]] = Updated(@, p)]
  /\ GoesTo(p, SecretOr(p))
  /\ UNCHANGED <<target, creating, eventVars>>

UpdateFails(p) == /\ migration[p] = "updating" /\ GoesTo(p, "failing")
                  /\ UNCHANGED <<endpoints, target, creating, eventVars>>

(* Mutant: onFail calls Client, which waits for the migration to end.      *)
OnFailWaits(p) == /\ migration[p] = "failing" /\ client[p] = "has" /\ GoesTo(p, "done")
                  /\ UNCHANGED <<endpoints, target, creating, eventVars>>

(* onFail runs before webhookWg.Done: if it calls Client it stays there.   *)
OnFailReturns(p) == /\ migration[p] = "failing" /\ p \notin UsesClient /\ GoesTo(p, "done")
                    /\ UNCHANGED <<endpoints, target, creating, eventVars>>

Client(p) == /\ client[p] \notin {"waiting", "released"}
             /\ client' = [client EXCEPT ![p] = IF Counts(p) THEN "waiting" ELSE "has"]
             /\ UNCHANGED <<endpoints, migration, target, creating, eventVars>>

ClientReturns(p) == /\ client[p] = "released"
                    /\ client' = [client EXCEPT ![p] = IF Counts(p) THEN "panicked" ELSE "has"]
                    /\ UNCHANGED <<endpoints, migration, target, creating, eventVars>>

(* The process dies and is started again.  (What dies handling an event    *)
(* does not answer: WebhookFails.)                                         *)
Restart(p) == /\ migration' = [migration EXCEPT ![p] = "none"]
              /\ client' = [client EXCEPT ![p] = "idle"]
              /\ UNCHANGED <<endpoints, target, creating, eventVars>>

-----------------------------------------------------------------------------
(* CreateWebhook returns an error if it sees an endpoint that is enabled.  *)
CreateWebhook(p) == /\ p \notin creating
                    /\ \A we \in ToSet(endpoints) : ~we.enabled
                    /\ creating' = creating \cup {p}
                    /\ UNCHANGED <<endpoints, migration, target, client, eventVars>>

NewWebhookEndpoint(p) ==
  /\ p \in creating /\ Len(endpoints) < MaxEndpoints
  /\ endpoints' = Append(endpoints, [enabled |-> TRUE, events |-> EventsOf[p],
                                     version |-> VersionOf[p]])
  /\ creating' = creating \ {p}
  /\ UNCHANGED <<migration, target, client, eventVars>>

NewWebhookFails(p) == /\ p \in creating
                      /\ creating' = creating \ {p}
                      /\ UNCHANGED <<endpoints, migration, target, client, eventVars>>

(* The operator, in Stripe's dashboard.                                    *)
Disable(n) == /\ endpoints[n].enabled
              /\ endpoints' = [endpoints EXCEPT ![n].enabled = FALSE]
              /\ UNCHANGED <<migration, target, creating, client, eventVars>>

-----------------------------------------------------------------------------
Deliver(e) == /\ delivery[e] = "pending" /\ \E we \in ToSet(endpoints) : we.enabled
              /\ delivery' = [delivery EXCEPT ![e] = "handling"]
              /\ UNCHANGED <<processed, hookVars>>

(* Mutant: the answer is written before the event is processed.            *)
AnswersFirst(e) == /\ delivery[e] = "handling"
                   /\ delivery' = [delivery EXCEPT ![e] = "answered"]
                   /\ UNCHANGED <<processed, hookVars>>

WebhookProcessed(e) == /\ delivery[e] = "handling"
                       /\ processed' = processed \cup {e}
                       /\ delivery' = [delivery EXCEPT ![e] = "answered"]
                       /\ UNCHANGED hookVars

(* The payload, the signature or onWebhook fails: 400 or 500.              *)
WebhookFails(e) == /\ delivery[e] = "handling"
                   /\ delivery' = [delivery EXCEPT ![e] = "pending"]
                   /\ UNCHANGED <<processed, hookVars>>

(* The 200 arrives, or it is lost and the event is delivered again.        *)
Answer(e) == /\ delivery[e] = "answered"
             /\ \E d \in {"acked", "pending"} : delivery' = [delivery EXCEPT ![e] = d]
             /\ UNCHANGED <<processed, hookVars>>

Migration(p) == ListWebhookEndpoints(p) \/ UpdateWebhookEndpoint(p) \/ UpdateFails(p) \/ OnFailReturns(p)

Next == \/ \E p \in Process : \/ MigrateWebhook(p) \/ Migration(p)
                              \/ Client(p) \/ ClientReturns(p) \/ Restart(p)
                              \/ CreateWebhook(p) \/ NewWebhookEndpoint(p) \/ NewWebhookFails(p)
        \/ \E n \in DOMAIN endpoints : Disable(n)
        \/ \E e \in Event : \/ Deliver(e) \/ WebhookProcessed(e) \/ WebhookFails(e) \/ Answer(e)

Spec == Init /\ [][Next]_vars

(* Requests to Stripe are answered, and who was released runs in the end.  *)
FairSpec == Spec /\ \A p \in Process : WF_vars(Migration(p)) /\ WF_vars(ClientReturns(p))

-----------------------------------------------------------------------------
(* A migration that ends without onFail leaves an endpoint that is enabled *)
(* for the events and the version of its process, whatever the others did  *)
(* between its two requests.                                               *)
DoneMeansSubscribed ==
  [][\A p \in Process : migration[p] \in {"listing", "updating"} /\ migration'[p] = "done" =>
       \E we \in ToSet(endpoints') : /\ we.enabled /\ we.version = VersionOf[p]
                                     /\ ToSet(we.events) = ToSet(EventsOf[p])]_vars

(* wwstripe.go:318: Stripe takes an event for delivered only if it was     *)
(* processed, whatever fails or is repeated.                               *)
AckedIsProcessed == \A e \in Event : delivery[e] = "acked" => e \in processed

(* Whoever waits for the client is given it, or panics since a migration   *)
(* began before it had left, or ends with its process; only for an onFail  *)
(* that asks for the client itself it waits for good.                      *)
WaitsForItself(p) == p \in UsesClient /\ migration[p] = "failing"
ClientIsGiven ==
  \A p \in Process : client[p] = "waiting" ~>
                       client[p] \in {"has", "panicked", "idle"} \/ WaitsForItself(p)
=============================================================================
