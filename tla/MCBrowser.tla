----------------------------- MODULE MCBrowser -----------------------------
(***************************************************************************)
(* The two programs beside Chromium in the browser's container: a          *)
(* behaviour follows runs of central_auth.py (CentralAuth), or a           *)
(* connection through cdp_proxy.py (CdpProxy).  They share Chromium, and   *)
(* nothing of what either keeps.                                           *)
(***************************************************************************)
EXTENDS CentralAuth, Naturals

CONSTANTS MaxChunks, HighWater, Errors

VARIABLES part, peer, sent, inbox, outbox, delivered, sock, err, crossed, upgrade, handler,
          raised, pipe

Proxy == INSTANCE CdpProxy

proxyVars == <<peer, sent, inbox, outbox, delivered, sock, err, crossed, upgrade, handler,
               raised, pipe>>
allVars == <<part, vars, proxyVars>>

ASSUME ProxyAssumption == Proxy!Sound

----------------------------------------------------------------------------
MCInit ==
  /\ part \in {"auth", "proxy"} /\ Init /\ Proxy!Init
  /\ part = "auth" => upgrade

Half(name, step, others) == part = name /\ step /\ UNCHANGED <<part, others>>

MCNext ==
  \/ Half("auth", Next, proxyVars)
  \/ Half("proxy", Proxy!Next, vars)

\* The event loop runs what is ready, peers that are up read what they get, and
\* Chromium answers a request or closes.
MCSpec ==
  /\ MCInit /\ [][MCNext]_allVars
  /\ WF_allVars(Half("proxy", Proxy!Handler, vars))
  /\ WF_allVars(Half("proxy", Proxy!Answers, vars))
  /\ \A s \in Proxy!Sides :
       /\ WF_allVars(Half("proxy", Proxy!Pipe(s), vars))
       /\ WF_allVars(Half("proxy", Proxy!Kernel(s), vars))

----------------------------------------------------------------------------
(* The properties of CdpProxy, by their names there.                       *)

\* A handler that has ended has closed both connections and dropped nothing.
EndedClean == Proxy!EndedClean

\* A connection that either peer has left is given up.
GivenUp == Proxy!GivenUp
=============================================================================
