----------------------------- MODULE Cloudflare -----------------------------
(***************************************************************************)
(* wwhttp/cloudflare.go and IpContextMiddleware: a request passes          *)
(* CloudflareMiddleware, which asks a Getter for Cloudflare's published    *)
(* ranges, then RequireCloudflareMiddleware where it is mounted, then      *)
(* IpContextMiddleware.  A goroutine of the Getter is a request here.      *)
(***************************************************************************)
EXTENDS Getter

CONSTANTS Addr, NoAddr,
          Ranges,              \* Ranges[n]: the addresses that version n lists
          RequireCloudflare    \* the requests to routes that mount RequireCloudflareMiddleware

ASSUME CloudflareAssumption == /\ NoAddr \notin Addr
                               /\ Ranges \in [Version -> SUBSET Addr]
                               /\ RequireCloudflare \subseteq Goroutine

VARIABLES from,      \* from[g]: the remote address
          header,    \* header[g]: Cf-Connecting-Ip
          outcome,   \* outcome[g]: "none" yet, "served", "forbidden" or "dropped"
          ip         \* ip[g]: what IpForContext tells the handler

requestVars == <<from, header, outcome, ip>>
cfVars == <<vars, requestVars>>

CfTypeOK == /\ TypeOK
            /\ from \in [Goroutine -> Addr \cup {NoAddr}]
            /\ header \in [Goroutine -> Addr \cup {NoAddr}]
            /\ outcome \in [Goroutine -> {"none", "served", "forbidden", "dropped"}]
            /\ ip \in [Goroutine -> Addr \cup {NoAddr}]

CfInit == /\ Init
          /\ from = [g \in Goroutine |-> NoAddr] /\ header = [g \in Goroutine |-> NoAddr]
          /\ outcome = [g \in Goroutine |-> "none"]
          /\ ip = [g \in Goroutine |-> NoAddr]

Arrive(g, a, h) == /\ pc[g] = "idle" \/ outcome[g] # "none"
                   /\ GetJson(g)
                   /\ from' = [from EXCEPT ![g] = a]
                   /\ header' = [header EXCEPT ![g] = h]
                   /\ outcome' = [outcome EXCEPT ![g] = "none"]
                   /\ ip' = [ip EXCEPT ![g] = NoAddr]

Listed(v) == IF v = None THEN {} ELSE Ranges[v]

(* Mutant: without a list every address passes.                            *)
FailsOpen(g) == got[g] = None \/ from[g] \in Listed(got[g])

IsFromCloudflare(g) == ~failed[g] /\ from[g] \in Listed(got[g])

Finish(g, how, addr) == /\ outcome' = [outcome EXCEPT ![g] = how]
                        /\ ip' = [ip EXCEPT ![g] = addr]
                        /\ UNCHANGED <<vars, from, header>>

Ready(g) == pc[g] = "returned" /\ outcome[g] = "none"

(* The middleware returns as soon as it has the client's address.          *)
DropsRequest(g) == /\ Ready(g) /\ IsFromCloudflare(g) /\ header[g] # NoAddr
                   /\ Finish(g, "dropped", NoAddr)

Forbids(g) == /\ Ready(g) /\ ~IsFromCloudflare(g) /\ g \in RequireCloudflare
              /\ Finish(g, "forbidden", NoAddr)

(* IpContextMiddleware; Serves shows that ClientIp is nil whenever it runs. *)
ClientIp(g) == IF IsFromCloudflare(g) THEN header[g] ELSE NoAddr
RequestIp(g) == IF ClientIp(g) # NoAddr THEN ClientIp(g) ELSE from[g]

Serves(g) == /\ Ready(g)
             /\ IF IsFromCloudflare(g) THEN header[g] = NoAddr ELSE g \notin RequireCloudflare
             /\ Finish(g, "served", RequestIp(g))

Handle(g) == DropsRequest(g) \/ Forbids(g) \/ Serves(g)

CfNext == \/ (Tick \/ Publish) /\ UNCHANGED requestVars
          \/ \E g \in Goroutine :
               \/ \E a \in Addr, h \in Addr \cup {NoAddr} : Arrive(g, a, h)
               \/ Step(g) /\ UNCHANGED requestVars
               \/ Handle(g)

CfSpec == CfInit /\ [][CfNext]_cfVars

-----------------------------------------------------------------------------
(* Where Cloudflare is required, whoever is served was listed by a version *)
(* that was not older than CheckInterval when the request came; no list,   *)
(* for whatever reason, serves nobody.  Anywhere, the handler is told the  *)
(* remote address, or what a listed one says of its client.                *)
ServedIsVouched ==
  \A g \in Goroutine : outcome[g] = "served" =>
    /\ g \in RequireCloudflare => \E n \in 1..origin :
         /\ from[g] \in Ranges[n]
         /\ n = origin \/ replacedAt[n] + CheckInterval >= called[g]
    /\ \/ ip[g] = from[g]
       \/ ip[g] = header[g] /\ \E n \in 1..origin : from[g] \in Ranges[n]
=============================================================================
