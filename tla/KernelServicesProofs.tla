------------------------ MODULE KernelServicesProofs ------------------------
(***************************************************************************)
(* Proofs about services of the kernel, each for any instance of its       *)
(* constants: the web client, the datagram queries, the image loader of    *)
(* the Ring 3 workers and the RTL8139 driver.                              *)
(***************************************************************************)
EXTENDS HttpClient, NetworkQueries, TLAPS

-----------------------------------------------------------------------------
(* The web client and the registry (HttpClient).                           *)

CallKinds == {"fetch", "range", "browser", "allowlisted", "same_origin"}
CallPhases == {"idle", "dns", "tcp", "tls", "parse", "done", "failed"}

\* A call in progress was allowed when it began, and the policy has not moved.
CallOK ==
    /\ web = [phase |-> web.phase, kind |-> web.kind, url |-> web.url,
              origin |-> web.origin, body |-> web.body, verified |-> web.verified]
    /\ web.phase \in CallPhases
    /\ OnTheWire => authorize_network
    /\ web.phase \in {"dns", "tcp", "tls", "parse", "done"} =>
          web.kind \in CallKinds /\ Confined(web.kind, web.origin, web.url)
    /\ web.phase = "tcp" => web.url.scheme # "https"
    /\ web.phase \in {"parse", "done"} /\ web.url.scheme = "https" => web.verified

\* The registry command owns the call it waits for, and asks its own origin.
RegistryOK ==
    /\ registry = [phase |-> registry.phase, url |-> registry.url,
                   manifest |-> registry.manifest]
    /\ registry.phase \in {"idle", "manifest", "artifact", "staged"}
    /\ registry.phase = "idle" => registry = NoTransaction
    /\ web.phase # "idle" /\ web.kind = "same_origin" => registry.phase \in {"manifest", "artifact"}
    /\ registry.phase \in {"manifest", "artifact"} =>
          /\ web.phase # "idle" /\ web.kind = "same_origin" /\ web.origin = registry.url
          /\ package = NoPackage
    /\ registry.phase = "artifact" =>
          registry.manifest.signed /\ web.url = registry.manifest.url
    /\ registry.phase = "staged" => package.by = "registry"

HttpInv == CallOK /\ RegistryOK /\ StagedIsSigned

\* What a call that is opened satisfies.
LEMMA OpenedCall ==
    ASSUME NEW kind \in CallKinds, NEW origin, NEW url, web' = Opened(kind, origin, url),
           UNCHANGED policy
    PROVE  /\ CallOK'
           /\ web'.kind = kind /\ web'.url = url /\ web'.origin = origin
           /\ web'.phase \in {"dns", "failed"}
<1>1. web' = [phase |-> IF authorize_network /\ Confined(kind, origin, url)
                          THEN "dns" ELSE "failed",
              kind |-> kind, url |-> url, origin |-> origin,
              body |-> NoBody, verified |-> FALSE]
  BY DEF Opened, IdleCall
<1>2. /\ web'.kind = kind /\ web'.url = url /\ web'.origin = origin
      /\ web'.phase \in {"dns", "failed"}
      /\ web'.phase = "dns" => authorize_network /\ Confined(kind, origin, url)
      /\ web' = [phase |-> web'.phase, kind |-> web'.kind, url |-> web'.url,
                 origin |-> web'.origin, body |-> web'.body, verified |-> web'.verified]
  BY <1>1
<1>3. authorize_network' = authorize_network
  BY DEF authorize_network
<1>4. Confined(kind, origin, url)' = Confined(kind, origin, url)
  BY DEF Confined
<1> QED  BY <1>2, <1>3 DEF CallOK, CallPhases, OnTheWire

\* What confinement says of the URL of each entry point.
LEMMA ConfinedFacts ==
    ASSUME NEW kind \in CallKinds, NEW origin, NEW url, Confined(kind, origin, url)
    PROVE  /\ parse_http_url(url)
           /\ kind = "allowlisted" => https_endpoint_allowed(url)
           /\ kind = "same_origin" => same_origin(origin, url)
<1>1. CASE kind \in {"fetch", "range", "browser"}
  BY <1>1 DEF Confined
<1>2. CASE kind = "allowlisted"
  BY <1>2 DEF Confined
<1>3. CASE kind = "same_origin"
  BY <1>3 DEF Confined
<1> QED  BY <1>1, <1>2, <1>3 DEF CallKinds

\* A call that fails, or ends, keeps the policy and the confinement.
LEMMA PolicyKept ==
    ASSUME UNCHANGED policy
    PROVE  authorize_network' = authorize_network
BY DEF authorize_network

LEMMA HttpInitInv == HttpInit => HttpInv
BY DEF HttpInit, HttpInv, CallOK, RegistryOK, StagedIsSigned, IdleCall, NoTransaction,
       NoPackage, CallPhases, OnTheWire

LEMMA IdleCallOK == ASSUME web' = IdleCall PROVE CallOK'
BY DEF CallOK, IdleCall, CallPhases, OnTheWire

\* A call that is none of the registry's begins.
LEMMA BeginInv ==
    ASSUME HttpInv, NEW kind \in CallKinds \ {"same_origin"},
           registry = NoTransaction, UNCHANGED <<registry, package>>,
           CallOK', web'.kind = kind
    PROVE  HttpInv'
<1>1. registry.phase = "idle"
  BY DEF NoTransaction
<1>2. RegistryOK'
  BY <1>1 DEF HttpInv, RegistryOK
<1>3. StagedIsSigned'
  BY DEF HttpInv, StagedIsSigned
<1> QED  BY <1>2, <1>3 DEF HttpInv

LEMMA RefusedCall ==
    ASSUME NEW kind, web' = [IdleCall EXCEPT !.kind = kind, !.phase = "failed"]
    PROVE  CallOK' /\ web'.kind = kind
<1>1. web' = [phase |-> "failed", kind |-> kind, url |-> NoUrl, origin |-> NoUrl,
              body |-> NoBody, verified |-> FALSE]
  BY DEF IdleCall
<1> QED  BY <1>1 DEF CallOK, CallPhases, OnTheWire

LEMMA EntryInv ==
    ASSUME HttpInv, http_get \/ web_get_range \/ browser_get \/ https_get_allowlisted
    PROVE  HttpInv'
<1> DEFINE Began(kind) == \/ \E url \in Urls : web' = Opened(kind, NoUrl, url)
                          \/ web' = [IdleCall EXCEPT !.kind = kind, !.phase = "failed"]
<1>1. /\ registry = NoTransaction /\ UNCHANGED <<policy, registry, package>>
      /\ \E kind \in CallKinds \ {"same_origin"} : Began(kind)
  <2>1. CASE http_get
    BY <2>1 DEF http_get, CallKinds
  <2>2. CASE web_get_range
    BY <2>2 DEF web_get_range, CallKinds
  <2>3. CASE browser_get
    BY <2>3 DEF browser_get, CallKinds
  <2>4. CASE https_get_allowlisted
    BY <2>4 DEF https_get_allowlisted, CallKinds
  <2> QED  BY <2>1, <2>2, <2>3, <2>4
<1>2. PICK kind \in CallKinds \ {"same_origin"} : Began(kind)
  BY <1>1
<1>3. CallOK' /\ web'.kind = kind
  <2>1. CASE \E url \in Urls : web' = Opened(kind, NoUrl, url)
    BY <2>1, <1>1, OpenedCall
  <2>2. CASE web' = [IdleCall EXCEPT !.kind = kind, !.phase = "failed"]
    BY <2>2, RefusedCall
  <2> QED  BY <1>2, <2>1, <2>2
<1> QED  BY <1>1, <1>3, BeginInv

\* A worker answers or fails: the call goes on to a later phase.
LEMMA AdvanceInv ==
    ASSUME HttpInv, UNCHANGED <<policy, registry, package>>,
           NEW phase \in CallPhases \ {"idle"}, NEW body, NEW verified,
           web.phase \in {"dns", "tcp", "tls", "parse"},
           web' = [phase |-> phase, kind |-> web.kind, url |-> web.url,
                   origin |-> web.origin, body |-> body, verified |-> verified],
           phase \in {"dns", "tcp", "tls"} => web.phase \in {"dns", "tcp", "tls"},
           phase = "tcp" => web.url.scheme # "https",
           phase \in {"parse", "done"} /\ web.url.scheme = "https" => verified
    PROVE  HttpInv'
<1>1. /\ web'.phase = phase /\ web'.kind = web.kind /\ web'.url = web.url
      /\ web'.origin = web.origin /\ web'.verified = verified
      /\ web' = [phase |-> web'.phase, kind |-> web'.kind, url |-> web'.url,
                 origin |-> web'.origin, body |-> web'.body, verified |-> web'.verified]
  OBVIOUS
<1>2. Confined(web.kind, web.origin, web.url)' = Confined(web.kind, web.origin, web.url)
  BY <1>1 DEF Confined
<1>3. CallOK'
  BY <1>1, <1>2, PolicyKept DEF HttpInv, CallOK, OnTheWire
<1>4. RegistryOK'
  BY <1>1 DEF HttpInv, RegistryOK
<1>5. StagedIsSigned'
  BY DEF HttpInv, StagedIsSigned
<1> QED  BY <1>3, <1>4, <1>5 DEF HttpInv

LEMMA WorkerInv ==
    ASSUME HttpInv,
           Resolve \/ tcp_exchange_isolated \/ https_exchange_isolated \/ parse_http_isolated
    PROVE  HttpInv'
<1> DEFINE To(phase, body, verified) ==
             web' = [phase |-> phase, kind |-> web.kind, url |-> web.url,
                     origin |-> web.origin, body |-> body, verified |-> verified]
<1>0. web = [phase |-> web.phase, kind |-> web.kind, url |-> web.url,
             origin |-> web.origin, body |-> web.body, verified |-> web.verified]
  BY DEF HttpInv, CallOK
<1>1. CASE Resolve
  <2>1. web.phase = "dns" /\ UNCHANGED <<policy, registry, package>>
    BY <1>1 DEF Resolve
  <2>2. CASE web' = [web EXCEPT !.phase = "failed"]
    <3>1. To("failed", web.body, web.verified)
      BY <2>2, <1>0
    <3> QED  BY <2>1, <3>1, AdvanceInv DEF CallPhases
  <2>3. CASE web.url.scheme = "https" /\ web' = [web EXCEPT !.phase = "tls"]
    <3>1. To("tls", web.body, web.verified)
      BY <2>3, <1>0
    <3> QED  BY <2>1, <3>1, AdvanceInv DEF CallPhases
  <2>4. CASE web.url.scheme # "https" /\ web' = [web EXCEPT !.phase = "tcp"]
    <3>1. To("tcp", web.body, web.verified)
      BY <2>4, <1>0
    <3>2. "tcp" \in CallPhases \ {"idle"} /\ web.url.scheme # "https"
      BY <2>4 DEF CallPhases
    <3> QED  BY <2>1, <3>1, <3>2, AdvanceInv
  <2> QED  BY <1>1, <2>2, <2>3, <2>4 DEF Resolve
<1>2. CASE tcp_exchange_isolated
  <2>1. /\ web.phase = "tcp" /\ UNCHANGED <<policy, registry, package>>
        /\ web.url.scheme # "https"
    BY <1>2 DEF tcp_exchange_isolated, HttpInv, CallOK
  <2>2. CASE web' = [web EXCEPT !.phase = "failed"]
    <3>1. To("failed", web.body, web.verified)
      BY <2>2, <1>0
    <3> QED  BY <2>1, <3>1, AdvanceInv DEF CallPhases
  <2>3. CASE \E body \in Bodies : web' = [web EXCEPT !.phase = "parse", !.body = body]
    <3>1. PICK body \in Bodies : web' = [web EXCEPT !.phase = "parse", !.body = body]
      BY <2>3
    <3>2. To("parse", body, web.verified)
      BY <3>1, <1>0
    <3> QED  BY <2>1, <3>2, AdvanceInv DEF CallPhases
  <2> QED  BY <1>2, <2>2, <2>3 DEF tcp_exchange_isolated
<1>3. CASE https_exchange_isolated
  <2>1. web.phase = "tls" /\ UNCHANGED <<policy, registry, package>>
    BY <1>3 DEF https_exchange_isolated
  <2>2. CASE web' = [web EXCEPT !.phase = "failed"]
    <3>1. To("failed", web.body, web.verified)
      BY <2>2, <1>0
    <3> QED  BY <2>1, <3>1, AdvanceInv DEF CallPhases
  <2>3. CASE \E body \in Bodies :
               web' = [web EXCEPT !.phase = "parse", !.body = body, !.verified = TRUE]
    <3>1. PICK body \in Bodies :
               web' = [web EXCEPT !.phase = "parse", !.body = body, !.verified = TRUE]
      BY <2>3
    <3>2. To("parse", body, TRUE)
      BY <3>1, <1>0
    <3> QED  BY <2>1, <3>2, AdvanceInv DEF CallPhases
  <2> QED  BY <1>3, <2>2, <2>3 DEF https_exchange_isolated
<1>4. CASE parse_http_isolated
  <2>1. /\ web.phase = "parse" /\ UNCHANGED <<policy, registry, package>>
        /\ web.url.scheme = "https" => web.verified
    BY <1>4 DEF parse_http_isolated, HttpInv, CallOK
  <2>2. CASE web' = [web EXCEPT !.phase = "failed", !.body = NoBody]
    <3>1. To("failed", NoBody, web.verified)
      BY <2>2, <1>0
    <3> QED  BY <2>1, <3>1, AdvanceInv DEF CallPhases
  <2>3. CASE web' = [web EXCEPT !.phase = "done"]
    <3>1. To("done", web.body, web.verified)
      BY <2>3, <1>0
    <3> QED  BY <2>1, <3>1, AdvanceInv DEF CallPhases
  <2> QED  BY <1>4, <2>2, <2>3 DEF parse_http_isolated
<1> QED  BY <1>1, <1>2, <1>3, <1>4

LEMMA StopsInv ==
    ASSUME HttpInv, Stops
    PROVE  HttpInv'
<1>1. CallOK'
  BY IdleCallOK DEF Stops
<1>2. RegistryOK'
  BY DEF Stops, RegistryOK, NoTransaction, IdleCall
<1>3. StagedIsSigned'
  BY DEF Stops, HttpInv, StagedIsSigned
<1> QED  BY <1>1, <1>2, <1>3 DEF HttpInv

\* The registry asks its own origin for the manifest, then for the artifact.
LEMMA RegistryAsks ==
    ASSUME HttpInv, UNCHANGED <<policy, package>>, package = NoPackage,
           NEW phase \in {"manifest", "artifact"}, NEW origin, NEW url, NEW manifest,
           registry' = [phase |-> phase, url |-> origin, manifest |-> manifest],
           web' = Opened("same_origin", origin, url),
           phase = "artifact" => manifest.signed /\ url = manifest.url
    PROVE  HttpInv'
<1>1. /\ CallOK' /\ web'.kind = "same_origin" /\ web'.url = url /\ web'.origin = origin
      /\ web'.phase \in {"dns", "failed"}
  BY OpenedCall DEF CallKinds
<1>2. registry'.phase = phase /\ registry'.url = origin /\ registry'.manifest = manifest
  OBVIOUS
<1>3. RegistryOK'
  BY <1>1, <1>2 DEF RegistryOK
<1>4. StagedIsSigned'
  BY DEF HttpInv, StagedIsSigned
<1> QED  BY <1>1, <1>3, <1>4 DEF HttpInv

LEMMA RegistryInv ==
    ASSUME HttpInv, ayo_registry \/ parse_signed_registry_manifest
    PROVE  HttpInv'
<1>1. CASE ayo_registry
  <2>1. PICK url \in Urls :
          /\ registry' = [NoTransaction EXCEPT !.phase = "manifest", !.url = url]
          /\ web' = Opened("same_origin", url, url)
    BY <1>1 DEF ayo_registry
  <2>2. registry' = [phase |-> "manifest", url |-> url, manifest |-> NoManifest]
    BY <2>1 DEF NoTransaction
  <2>3. UNCHANGED <<policy, package>> /\ package = NoPackage
    BY <1>1 DEF ayo_registry
  <2> QED  BY <2>1, <2>2, <2>3, RegistryAsks
<1>2. CASE parse_signed_registry_manifest /\ ~Stops
  <2>1. PICK m \in Manifests :
          /\ m.signed
          /\ registry' = [registry EXCEPT !.phase = "artifact", !.manifest = m]
          /\ web' = Opened("same_origin", registry.url, m.url)
    BY <1>2 DEF parse_signed_registry_manifest
  <2>2. registry = [phase |-> registry.phase, url |-> registry.url,
                    manifest |-> registry.manifest]
    BY DEF HttpInv, RegistryOK
  <2>3. registry' = [phase |-> "artifact", url |-> registry.url, manifest |-> m]
    BY <2>1, <2>2
  <2>4. UNCHANGED <<policy, package>> /\ package = NoPackage
    BY <1>2 DEF parse_signed_registry_manifest, HttpInv, RegistryOK
  <2> QED  BY <2>1, <2>3, <2>4, RegistryAsks
<1> QED  BY <1>1, <1>2, StopsInv

LEMMA StageInv ==
    ASSUME HttpInv, StageArtifact
    PROVE  HttpInv'
<1>1. CASE Stops
  BY <1>1, StopsInv
<1>2. CASE ~Stops
  <2>1. /\ Verified /\ web' = IdleCall /\ registry.phase = "artifact"
        /\ package' = [by |-> "registry", manifest |-> registry.manifest,
                       from |-> web.url, body |-> web.body]
        /\ registry' = [registry EXCEPT !.phase = "staged"]
    BY <1>2 DEF StageArtifact
  <2>2. registry.manifest.signed /\ web.url = registry.manifest.url
    BY <2>1 DEF HttpInv, RegistryOK
  <2>3. /\ package'.by = "registry" /\ package'.manifest = registry.manifest
        /\ package'.from = web.url /\ package'.body = web.body
    BY <2>1
  <2>4. StagedIsSigned'
    BY <2>1, <2>2, <2>3 DEF StagedIsSigned, Verified
  <2>5. registry' = [phase |-> "staged", url |-> registry.url, manifest |-> registry.manifest]
    BY <2>1 DEF HttpInv, RegistryOK
  <2>6. web'.phase = "idle"
    BY <2>1 DEF IdleCall
  <2>7. RegistryOK'
    BY <2>3, <2>5, <2>6 DEF RegistryOK
  <2> QED  BY <2>1, <2>4, <2>7, IdleCallOK DEF HttpInv
<1> QED  BY <1>1, <1>2

\* What neither a call nor a registry install is going on for.
LEMMA BetweenCalls ==
    ASSUME HttpInv, web.phase = "idle", UNCHANGED web,
           registry' = NoTransaction, package'.by # "registry" \/ UNCHANGED package
    PROVE  HttpInv'
<1>1. registry' = [phase |-> registry'.phase, url |-> registry'.url,
                   manifest |-> registry'.manifest] /\ registry'.phase = "idle"
  BY DEF NoTransaction
<1>2. RegistryOK'
  BY <1>1 DEF RegistryOK
<1>3. CallOK'
  <2>1. web'.phase = "idle"
    OBVIOUS
  <2> QED  BY <2>1 DEF HttpInv, CallOK, OnTheWire, CallPhases
<1>4. StagedIsSigned'
  BY DEF HttpInv, StagedIsSigned
<1> QED  BY <1>2, <1>3, <1>4 DEF HttpInv

LEMMA OtherInv ==
    ASSUME HttpInv, Returns \/ commit_native_package \/ ayo_native_begin \/ PolicyChanges
    PROVE  HttpInv'
<1>1. CASE Returns
  <2>1. Stops
    BY <1>1 DEF Returns, Stops
  <2> QED  BY <2>1, StopsInv
<1>2. CASE commit_native_package
  BY <1>2, BetweenCalls DEF commit_native_package, NoPackage
<1>3. CASE ayo_native_begin
  <2>1. package'.by = "hand"
    BY <1>3 DEF ayo_native_begin, NoPackage
  <2> QED  BY <1>3, <2>1, BetweenCalls DEF ayo_native_begin
<1>4. CASE PolicyChanges
  BY <1>4, BetweenCalls DEF PolicyChanges
<1> QED  BY <1>1, <1>2, <1>3, <1>4

LEMMA HttpUnchanged ==
    ASSUME HttpInv, UNCHANGED webVars
    PROVE  HttpInv'
<1>1. UNCHANGED policy /\ UNCHANGED web /\ UNCHANGED registry /\ UNCHANGED package
  BY DEF webVars
<1>2. CallOK'
  <2>1. Confined(web.kind, web.origin, web.url)' = Confined(web.kind, web.origin, web.url)
    BY <1>1 DEF Confined
  <2> QED  BY <1>1, <2>1, PolicyKept DEF HttpInv, CallOK, OnTheWire
<1>3. RegistryOK'
  BY <1>1 DEF HttpInv, RegistryOK
<1>4. StagedIsSigned'
  BY <1>1 DEF HttpInv, StagedIsSigned
<1> QED  BY <1>2, <1>3, <1>4 DEF HttpInv

LEMMA HttpStepInv == HttpInv /\ [HttpNext]_webVars => HttpInv'
<1> SUFFICES ASSUME HttpInv, [HttpNext]_webVars PROVE HttpInv'
  OBVIOUS
<1>1. CASE http_get \/ web_get_range \/ browser_get \/ https_get_allowlisted
  BY <1>1, EntryInv
<1>2. CASE Resolve \/ tcp_exchange_isolated \/ https_exchange_isolated \/ parse_http_isolated
  BY <1>2, WorkerInv
<1>3. CASE ayo_registry \/ parse_signed_registry_manifest
  BY <1>3, RegistryInv
<1>4. CASE StageArtifact
  BY <1>4, StageInv
<1>5. CASE Returns \/ commit_native_package \/ ayo_native_begin \/ PolicyChanges
  BY <1>5, OtherInv
<1>6. CASE UNCHANGED webVars
  BY <1>6, HttpUnchanged
<1> QED  BY <1>1, <1>2, <1>3, <1>4, <1>5, <1>6 DEF HttpNext

LEMMA HttpInvSafe ==
    ASSUME HttpInv
    PROVE  /\ TrafficAuthorized /\ EndpointsConfined
           /\ StagedIsSigned /\ SecureAnswersVerified
<1>1. TrafficAuthorized
  BY DEF HttpInv, CallOK, TrafficAuthorized, authorize_network
<1>2. web.phase \in {"dns", "tcp", "tls", "parse", "done"} =>
        /\ parse_http_url(web.url)
        /\ web.kind = "allowlisted" => https_endpoint_allowed(web.url)
        /\ web.kind = "same_origin" => same_origin(web.origin, web.url)
  BY ConfinedFacts DEF HttpInv, CallOK
<1>3. EndpointsConfined
  <2>1. OnTheWire => web.phase \in {"dns", "tcp", "tls", "parse", "done"} /\ web.phase # "idle"
    BY DEF OnTheWire
  <2>2. OnTheWire /\ web.kind = "same_origin" => web.origin = registry.url
    BY <2>1 DEF HttpInv, RegistryOK
  <2> QED  BY <1>2, <2>1, <2>2 DEF EndpointsConfined, same_origin
<1>4. SecureAnswersVerified
  BY <1>2 DEF HttpInv, CallOK, SecureAnswersVerified, parse_http_url
<1> QED  BY <1>1, <1>3, <1>4 DEF HttpInv

LEMMA HandKept ==
    ASSUME HttpInv, HttpNext, package.by = "hand", package' # package
    PROVE  package' = NoPackage /\ registry = NoTransaction
<1>1. package # NoPackage
  BY DEF NoPackage
<1>2. registry.phase \notin {"manifest", "artifact", "staged"}
  BY <1>1 DEF HttpInv, RegistryOK
<1>3. registry = NoTransaction
  BY <1>2 DEF HttpInv, RegistryOK
<1>4. ~StageArtifact /\ ~ayo_native_begin
  BY <1>1, <1>2 DEF StageArtifact, ayo_native_begin
<1>5. CASE commit_native_package
  BY <1>3, <1>5 DEF commit_native_package
<1>6. CASE ~commit_native_package
  BY <1>4, <1>6 DEF HttpNext, http_get, web_get_range, browser_get, https_get_allowlisted,
     Resolve, tcp_exchange_isolated, https_exchange_isolated, parse_http_isolated, Returns,
     ayo_registry, parse_signed_registry_manifest, Stops, PolicyChanges
<1> QED  BY <1>5, <1>6

\* In every state of every run of the web client, whatever URLs are asked for and
\* whatever the servers answer: nothing is sent without the radio and the Handle,
\* a confined call stays at its endpoints, HTTPS answers are verified, and what
\* is staged for installation is what a signed manifest describes; and a
\* transaction staged by hand is replaced by nobody.
THEOREM WebIsTrusted == HttpSpec => WebTrusted
<1>1. HttpSpec => []HttpInv
  BY HttpInitInv, HttpStepInv, PTL DEF HttpSpec
<1>2. HttpInv => /\ TrafficAuthorized /\ EndpointsConfined
                 /\ StagedIsSigned /\ SecureAnswersVerified
  BY HttpInvSafe
<1>3. HttpInv /\ [HttpNext]_webVars =>
        [package.by = "hand" /\ package' # package
           => package' = NoPackage /\ registry = NoTransaction]_webVars
  BY HandKept
<1>4. HttpSpec => HandStagedKept
  BY <1>1, <1>3, PTL DEF HttpSpec, HandStagedKept
<1> QED  BY <1>1, <1>2, <1>4, PTL DEF WebTrusted

-----------------------------------------------------------------------------
(* The datagram queries (NetworkQueries).                                  *)

\* A call that waits for a datagram knows the port it asked from; the lease a
\* renewal asks for is a server and an address.
NowOK(now, call) ==
    \/ now = Rest
    \/ /\ call \in Nat \ {0}
       /\ now = [op |-> now.op, step |-> now.step, tries |-> now.tries, target |-> now.target,
                 index |-> now.index, count |-> now.count, port |-> now.port]
       /\ now.op \in {"udp", "dns", "ping"} /\ now.step \in {"arp", "neighbor", "ask", "answer"}
       /\ now.port = SourcePort(now.op, call)
    \/ /\ call \in Nat \ {0}
       /\ now = [op |-> "dhcp", step |-> now.step, tries |-> now.tries, offer |-> now.offer]
       /\ now.step \in {"discover", "offer", "request", "ack"}
       /\ now.offer = [server |-> now.offer.server, address |-> now.offer.address]

\* A datagram carries the port of the call it answers, or that of a lookup; an
\* acknowledgement on its way was granted.
AnswerOK(answer, grants) ==
    /\ answer.kind = "udp" => answer.port = Lookup \/ answer.port = answer.call
    /\ answer.kind = "ack" => [server |-> answer.server, address |-> answer.address] \in grants

QueriesInv ==
    /\ query = [call |-> query.call, now |-> query.now]
    /\ query.call \in Nat /\ NowOK(query.now, query.call)
    /\ \A answer \in air : AnswerOK(answer, granted)
    /\ QueriesAnswered

LEMMA QueriesInitInv == QueriesInit => QueriesInv
BY DEF QueriesInit, QueriesInv, NowOK, QueriesAnswered, AnswersItsRequest, ConfigIsALease,
       NothingYet

LEMMA WaitsFor ==
    ASSUME QueriesInv, NEW now, Waits(now)
    PROVE  query' = [call |-> query.call, now |-> now]
BY DEF QueriesInv, Waits

\* A step that asks or takes an answer keeps the answers that are on their way.
LEMMA AirKept ==
    ASSUME QueriesInv, NEW answers, \A answer \in answers : AnswerOK(answer, granted'),
           granted \subseteq granted', air' \subseteq air \cup answers
    PROVE  \A answer \in air' : AnswerOK(answer, granted')
BY DEF QueriesInv, AnswerOK

\* A step that neither answers a call nor changes the configuration.
LEMMA WaitingInv ==
    ASSUME QueriesInv, NEW now, query' = [call |-> query.call, now |-> now],
           NowOK(now, query.call), granted \subseteq granted',
           \A answer \in air' : AnswerOK(answer, granted'), UNCHANGED <<config, last>>
    PROVE  QueriesInv'
<1>1. query'.call = query.call /\ query'.now = now
  OBVIOUS
<1>2. QueriesAnswered'
  BY DEF QueriesInv, QueriesAnswered, AnswersItsRequest, ConfigIsALease
<1>3. query' = [call |-> query'.call, now |-> query'.now] /\ query'.call \in Nat
  BY <1>1 DEF QueriesInv
<1> QED  BY <1>1, <1>2, <1>3 DEF QueriesInv

LEMMA FailsInv == ASSUME QueriesInv, CallFails PROVE QueriesInv'
<1>1. query' = [call |-> query.call, now |-> Rest] /\ NowOK(Rest, query.call)
  BY WaitsFor DEF CallFails, NowOK
<1>2. \A answer \in air' : AnswerOK(answer, granted')
  BY DEF CallFails, QueriesInv
<1> QED  BY <1>1, <1>2, WaitingInv DEF CallFails

LEMMA BeginCallInv ==
    ASSUME QueriesInv, UNCHANGED <<air, config, granted, last>>,
           NEW now, query' = [call |-> query.call + 1, now |-> now], NowOK(now, query.call + 1)
    PROVE  QueriesInv'
<1>1. /\ query'.call = query.call + 1 /\ query'.now = now
      /\ query' = [call |-> query'.call, now |-> query'.now]
  OBVIOUS
<1>2. query'.call \in Nat
  BY <1>1 DEF QueriesInv
<1>3. QueriesAnswered' /\ \A answer \in air' : AnswerOK(answer, granted')
  BY DEF QueriesInv, QueriesAnswered, AnswersItsRequest, ConfigIsALease
<1> QED  BY <1>1, <1>2, <1>3 DEF QueriesInv

LEMMA BeginsInv ==
    ASSUME QueriesInv,
           udp_exchange_isolated \/ dns_lookup_isolated \/ ping_text \/ renew_dhcp
    PROVE  QueriesInv'
<1>1. query.call + 1 \in Nat \ {0}
  BY DEF QueriesInv
<1>2. CASE renew_dhcp
  <2> DEFINE now == [op |-> "dhcp", step |-> "discover", tries |-> 0, offer |-> Fallback]
  <2>1. NowOK(now, query.call + 1)
    BY <1>1 DEF NowOK, Fallback
  <2> QED  BY <1>2, <2>1, BeginCallInv DEF renew_dhcp
<1>3. ASSUME NEW op \in {"udp", "dns", "ping"}, NEW target, NEW count, Begin(op, target, count)
      PROVE  QueriesInv'
  <2> DEFINE now == [op |-> op, step |-> "arp", tries |-> 0, target |-> target, index |-> 1,
                     count |-> count, port |-> SourcePort(op, query.call + 1)]
  <2>1. NowOK(now, query.call + 1)
    BY <1>1 DEF NowOK
  <2> QED  BY <1>3, <2>1, BeginCallInv DEF Begin
<1> QED  BY <1>2, <1>3 DEF udp_exchange_isolated, dns_lookup_isolated, ping_text

\* A call that goes on keeps what it asks and where it asked from.
LEMMA DatagramGoesOn ==
    ASSUME NEW now, NEW call, NowOK(now, call), now # Rest,
           now.step \in {"arp", "neighbor", "ask", "answer"},
           NEW step \in {"arp", "neighbor", "ask", "answer"}, NEW tries, NEW index
    PROVE  /\ NowOK([now EXCEPT !.step = step], call)
           /\ NowOK([now EXCEPT !.step = step, !.tries = tries], call)
           /\ NowOK([now EXCEPT !.tries = tries, !.step = step], call)
           /\ NowOK([now EXCEPT !.index = index, !.step = step, !.tries = tries], call)
<1> DEFINE To(i, s, t) == [op |-> now.op, step |-> s, tries |-> t, target |-> now.target,
                           index |-> i, count |-> now.count, port |-> now.port]
<1>1. /\ call \in Nat \ {0} /\ now = To(now.index, now.step, now.tries)
      /\ now.op \in {"udp", "dns", "ping"} /\ now.port = SourcePort(now.op, call)
  BY DEF NowOK
<1>2. \A i, t : NowOK(To(i, step, t), call)
  BY <1>1 DEF NowOK
<1>3. \A i, s, t, v : [To(i, s, t) EXCEPT !.step = v] = To(i, v, t)
  OBVIOUS
<1>4. \A i, s, t, v : [To(i, s, t) EXCEPT !.tries = v] = To(i, s, v)
  OBVIOUS
<1>5. \A i, s, t, v : [To(i, s, t) EXCEPT !.index = v] = To(v, s, t)
  OBVIOUS
<1> HIDE DEF To
<1> DEFINE stepped == [now EXCEPT !.step = step]
           tried == [now EXCEPT !.tries = tries]
           indexed == [now EXCEPT !.index = index]
           both == [indexed EXCEPT !.step = step]
<1>6. /\ stepped = To(now.index, step, now.tries)
      /\ tried = To(now.index, now.step, tries)
      /\ indexed = To(index, now.step, now.tries)
  BY <1>1, <1>3, <1>4, <1>5
<1> HIDE DEF stepped, tried, indexed
<1>7. both = To(index, step, now.tries)
  BY <1>3, <1>6
<1> HIDE DEF both
<1>8. /\ [stepped EXCEPT !.tries = tries] = To(now.index, step, tries)
      /\ [tried EXCEPT !.step = step] = To(now.index, step, tries)
      /\ [both EXCEPT !.tries = tries] = To(index, step, tries)
  BY <1>3, <1>4, <1>6, <1>7
<1>9. /\ NowOK(stepped, call) /\ NowOK([stepped EXCEPT !.tries = tries], call)
      /\ NowOK([tried EXCEPT !.step = step], call)
      /\ NowOK([both EXCEPT !.tries = tries], call)
  BY <1>2, <1>6, <1>8
<1> QED  BY <1>9 DEF stepped, tried, indexed, both

LEMMA RenewalGoesOn ==
    ASSUME NEW now, NEW call, NowOK(now, call), now # Rest,
           now.step \in {"discover", "offer", "request", "ack"},
           NEW step \in {"discover", "offer", "request", "ack"}, NEW tries,
           NEW server, NEW address
    PROVE  /\ now.offer = [server |-> now.offer.server, address |-> now.offer.address]
           /\ NowOK([now EXCEPT !.step = step], call)
           /\ NowOK([now EXCEPT !.tries = tries, !.step = step], call)
           /\ NowOK([now EXCEPT !.step = step, !.tries = tries,
                                !.offer = [server |-> server, address |-> address]], call)
<1> DEFINE To(s, t, o) == [op |-> "dhcp", step |-> s, tries |-> t, offer |-> o]
           given == [server |-> server, address |-> address]
<1>1. /\ call \in Nat \ {0} /\ now = To(now.step, now.tries, now.offer)
      /\ now.offer = [server |-> now.offer.server, address |-> now.offer.address]
  BY DEF NowOK
<1>2. \A t : NowOK(To(step, t, now.offer), call) /\ NowOK(To(step, t, given), call)
  BY <1>1 DEF NowOK
<1>3. \A s, t, o, v : [To(s, t, o) EXCEPT !.step = v] = To(v, t, o)
  OBVIOUS
<1>4. \A s, t, o, v : [To(s, t, o) EXCEPT !.tries = v] = To(s, v, o)
  OBVIOUS
<1>5. \A s, t, o, v : [To(s, t, o) EXCEPT !.offer = v] = To(s, t, v)
  OBVIOUS
<1> HIDE DEF To, given
<1> DEFINE stepped == [now EXCEPT !.step = step]
           tried == [now EXCEPT !.tries = tries]
           both == [stepped EXCEPT !.tries = tries]
<1>6. /\ stepped = To(step, now.tries, now.offer)
      /\ tried = To(now.step, tries, now.offer)
  BY <1>1, <1>3, <1>4
<1> HIDE DEF stepped, tried
<1>7. both = To(step, tries, now.offer)
  BY <1>4, <1>6
<1> HIDE DEF both
<1>8. /\ [tried EXCEPT !.step = step] = To(step, tries, now.offer)
      /\ [both EXCEPT !.offer = given] = To(step, tries, given)
  BY <1>3, <1>5, <1>6, <1>7
<1>9. /\ NowOK(stepped, call) /\ NowOK([tried EXCEPT !.step = step], call)
      /\ NowOK([both EXCEPT !.offer = given], call)
  BY <1>2, <1>6, <1>8
<1> QED  BY <1>1, <1>9 DEF stepped, tried, both, given

\* What the answers of Asks and Takes leave in the air.
LEMMA AsksAir ==
    ASSUME QueriesInv, NEW answers, \A answer \in answers : AnswerOK(answer, granted),
           Asks(answers), UNCHANGED granted
    PROVE  \A answer \in air' : AnswerOK(answer, granted')
BY AirKept DEF Asks

LEMMA TakesAir ==
    ASSUME QueriesInv, NEW answer, Takes(answer), UNCHANGED granted
    PROVE  \A a \in air' : AnswerOK(a, granted')
<1>1. air' \subseteq air
  BY DEF Takes
<1> QED  BY <1>1 DEF QueriesInv

LEMMA NeighborInv == ASSUME QueriesInv, resolve_neighbor PROVE QueriesInv'
<1>1. NowOK(query.now, query.call)
  BY DEF QueriesInv
<1>2. CASE query.now.tries = RETRIES_Q
  BY <1>2, FailsInv DEF resolve_neighbor
<1>3. CASE query.now.tries # RETRIES_Q
  <2> DEFINE now == [query.now EXCEPT !.tries = @ + 1, !.step = "neighbor"]
  <2>1. /\ query.now # Rest /\ query.now.step = "arp"
        /\ Asks({[kind |-> "arp", from |-> Neighbor(query.now.target)]}) /\ Waits(now)
        /\ UNCHANGED <<config, granted, last>>
    BY <1>3 DEF resolve_neighbor
  <2>2. NowOK(now, query.call)
    BY <1>1, <2>1, DatagramGoesOn
  <2>3. \A answer \in air' : AnswerOK(answer, granted')
    <3> DEFINE a == [kind |-> "arp", from |-> Neighbor(query.now.target)]
    <3>1. AnswerOK(a, granted)
      BY DEF AnswerOK
    <3> HIDE DEF a
    <3>2. Asks({a}) /\ UNCHANGED granted
      BY <2>1 DEF a
    <3> QED  BY <3>1, <3>2, AsksAir
  <2> HIDE DEF now
  <2> QED  BY <2>1, <2>2, <2>3, WaitsFor, WaitingInv
<1> QED  BY <1>2, <1>3

LEMMA AskInv == ASSUME QueriesInv, Ask PROVE QueriesInv'
<1>1. NowOK(query.now, query.call) /\ query.now # Rest /\ query.now.step = "ask"
  BY DEF QueriesInv, Ask
<1>2. CASE query.now.tries = RETRIES_Q
  BY <1>2, FailsInv DEF Ask
<1>3. CASE query.now.tries # RETRIES_Q
  <2> DEFINE now == [query.now EXCEPT !.tries = @ + 1, !.step = "answer"]
             a == IF query.now.op = "ping" THEN EchoTo(query.now) ELSE DatagramTo(query.now)
  <2>1. Asks({a}) /\ Waits(now) /\ UNCHANGED <<config, granted, last>>
    BY <1>3 DEF Ask
  <2>2. NowOK(now, query.call)
    BY <1>1, DatagramGoesOn
  <2>3. query.now.port = SourcePort(query.now.op, query.call)
    BY <1>1 DEF NowOK
  <2>4. AnswerOK(a, granted)
    <3>1. CASE query.now.op = "ping"
      BY <3>1 DEF AnswerOK, EchoTo
    <3>2. CASE query.now.op # "ping"
      BY <2>3, <3>2 DEF AnswerOK, DatagramTo, SourcePort
    <3> QED  BY <3>1, <3>2
  <2> HIDE DEF now, a
  <2>5. \A answer \in air' : AnswerOK(answer, granted')
    BY <2>1, <2>4, AsksAir
  <2> QED  BY <2>1, <2>2, <2>5, WaitsFor, WaitingInv
<1> QED  BY <1>2, <1>3

LEMMA DiscoverInv == ASSUME QueriesInv, Discover PROVE QueriesInv'
<1>1. NowOK(query.now, query.call) /\ query.now # Rest /\ query.now.step = "discover"
  BY DEF QueriesInv, Discover
<1>2. CASE query.now.tries = RETRIES_Q
  BY <1>2, FailsInv DEF Discover
<1>3. CASE query.now.tries # RETRIES_Q
  <2> DEFINE now == [query.now EXCEPT !.tries = @ + 1, !.step = "offer"]
             offers == {[kind |-> "offer", server |-> s, address |-> s] : s \in DhcpServers}
  <2>1. Asks(offers) /\ Waits(now) /\ UNCHANGED <<config, granted, last>>
    BY <1>3 DEF Discover
  <2>2. NowOK(now, query.call)
    BY <1>1, RenewalGoesOn
  <2>3. \A answer \in offers : AnswerOK(answer, granted)
    BY DEF AnswerOK
  <2> HIDE DEF now, offers
  <2>4. \A answer \in air' : AnswerOK(answer, granted')
    BY <2>1, <2>3, AsksAir
  <2> QED  BY <2>1, <2>2, <2>4, WaitsFor, WaitingInv
<1> QED  BY <1>2, <1>3

LEMMA RequestInv == ASSUME QueriesInv, Request PROVE QueriesInv'
<1>1. NowOK(query.now, query.call) /\ query.now # Rest /\ query.now.step = "request"
  BY DEF QueriesInv, Request
<1>2. CASE query.now.tries = RETRIES_Q
  BY <1>2, FailsInv DEF Request
<1>3. CASE query.now.tries # RETRIES_Q
  <2> DEFINE now == [query.now EXCEPT !.tries = @ + 1, !.step = "ack"]
             offer == query.now.offer
             Reply1(kind) == [kind |-> kind, server |-> offer.server, address |-> offer.address]
  <2>1. /\ Waits(now) /\ UNCHANGED <<config, last>>
        /\ \/ air' = air /\ UNCHANGED granted
           \/ \E kind \in {"ack", "nak"} :
                /\ air' = air \cup {Reply1(kind)}
                /\ granted' = IF kind = "ack" THEN granted \cup {offer} ELSE granted
    BY <1>3 DEF Request
  <2>2. NowOK(now, query.call) /\ offer = [server |-> offer.server, address |-> offer.address]
    BY <1>1, RenewalGoesOn
  <2> HIDE DEF now
  <2>3. CASE air' = air /\ UNCHANGED granted
    <3>1. \A answer \in air' : AnswerOK(answer, granted')
      BY <2>3 DEF QueriesInv
    <3> QED  BY <2>1, <2>2, <2>3, <3>1, WaitsFor, WaitingInv
  <2>4. ASSUME NEW kind \in {"ack", "nak"}, air' = air \cup {Reply1(kind)},
               granted' = IF kind = "ack" THEN granted \cup {offer} ELSE granted
        PROVE  QueriesInv'
    <3>1. granted \subseteq granted' /\ (kind = "ack" => offer \in granted')
      BY <2>4
    <3>2. AnswerOK(Reply1(kind), granted')
      BY <2>2, <3>1 DEF AnswerOK
    <3> HIDE DEF Reply1
    <3>3. \A answer \in air' : AnswerOK(answer, granted')
      <4> DEFINE answers == {Reply1(kind)}
      <4>1. \A answer \in answers : AnswerOK(answer, granted')
        BY <3>2
      <4>2. air' \subseteq air \cup answers
        BY <2>4
      <4> HIDE DEF answers
      <4> QED  BY <3>1, <4>1, <4>2, AirKept
    <3>4. query' = [call |-> query.call, now |-> now] /\ UNCHANGED <<config, last>>
      BY <2>1, WaitsFor
    <3> QED  BY <2>2, <3>1, <3>3, <3>4, WaitingInv
  <2> QED  BY <2>1, <2>3, <2>4
<1> QED  BY <1>2, <1>3

LEMMA PollsOutInv == ASSUME QueriesInv, PollsOut PROVE QueriesInv'
<1>1. NowOK(query.now, query.call) /\ query.now # Rest /\ UNCHANGED <<air, config, granted, last>>
  BY DEF QueriesInv, PollsOut
<1>2. \A answer \in air' : AnswerOK(answer, granted')
  BY <1>1 DEF QueriesInv
<1>3. PICK back \in {<<"neighbor", "arp">>, <<"answer", "ask">>, <<"offer", "discover">>,
                     <<"ack", "request">>} :
        query.now.step = back[1] /\ Waits([query.now EXCEPT !.step = back[2]])
  BY DEF PollsOut
<1> DEFINE now == [query.now EXCEPT !.step = back[2]]
<1>4. NowOK(now, query.call)
  <2>1. CASE back \in {<<"neighbor", "arp">>, <<"answer", "ask">>}
    <3>1. /\ query.now.step \in {"arp", "neighbor", "ask", "answer"}
          /\ back[2] \in {"arp", "neighbor", "ask", "answer"}
      BY <1>3, <2>1
    <3> QED  BY <1>1, <3>1, DatagramGoesOn
  <2>2. CASE back \in {<<"offer", "discover">>, <<"ack", "request">>}
    <3>1. /\ query.now.step \in {"discover", "offer", "request", "ack"}
          /\ back[2] \in {"discover", "offer", "request", "ack"}
      BY <1>3, <2>2
    <3> QED  BY <1>1, <3>1, RenewalGoesOn
  <2> QED  BY <2>1, <2>2
<1> HIDE DEF now
<1>5. query' = [call |-> query.call, now |-> now]
  BY <1>3, WaitsFor DEF now
<1> QED  BY <1>1, <1>2, <1>4, <1>5, WaitingInv

\* A message that is not the one waited for leaves the call as it is.
LEMMA PassedOver ==
    ASSUME QueriesInv, NEW answer, Takes(answer), UNCHANGED <<query, config, granted, last>>
    PROVE  QueriesInv'
<1>1. \A a \in air' : AnswerOK(a, granted')
  BY TakesAir
<1> QED  BY <1>1 DEF QueriesInv, QueriesAnswered, AnswersItsRequest, ConfigIsALease

LEMMA NeighborKnownInv ==
    ASSUME QueriesInv, NEW answer \in air, NeighborKnown(answer)
    PROVE  QueriesInv'
<1>1. /\ NowOK(query.now, query.call) /\ query.now # Rest /\ query.now.step = "neighbor"
      /\ Takes(answer) /\ UNCHANGED <<config, granted, last>>
  BY DEF QueriesInv, NeighborKnown
<1>2. CASE UNCHANGED query
  BY <1>1, <1>2, PassedOver
<1>3. CASE Waits([query.now EXCEPT !.step = "ask", !.tries = 0])
  <2> DEFINE now == [query.now EXCEPT !.step = "ask", !.tries = 0]
  <2>1. NowOK(now, query.call)
    BY <1>1, DatagramGoesOn
  <2>2. \A a \in air' : AnswerOK(a, granted')
    BY <1>1, TakesAir
  <2> HIDE DEF now
  <2>3. query' = [call |-> query.call, now |-> now]
    BY <1>3, WaitsFor DEF now
  <2> QED  BY <1>1, <2>1, <2>2, <2>3, WaitingInv
<1> QED  BY <1>2, <1>3 DEF NeighborKnown

LEMMA OfferedInv ==
    ASSUME QueriesInv, NEW answer \in air, Offered(answer)
    PROVE  QueriesInv'
<1>1. /\ NowOK(query.now, query.call) /\ query.now # Rest /\ query.now.step = "offer"
      /\ Takes(answer) /\ UNCHANGED <<config, granted, last>>
  BY DEF QueriesInv, Offered
<1>2. \A a \in air' : AnswerOK(a, granted')
  BY <1>1, TakesAir
<1> DEFINE given == [server |-> answer.server, address |-> answer.address]
           taken == [query.now EXCEPT !.step = "request", !.tries = 0, !.offer = given]
<1>3. NowOK(Rest, query.call) /\ NowOK(taken, query.call)
  <2>1. NowOK(Rest, query.call)
    BY DEF NowOK
  <2>2. NowOK(taken, query.call)
    BY <1>1, RenewalGoesOn
  <2> QED  BY <2>1, <2>2
<1>4. \E now \in {Rest, taken, query.now} : Waits(now)
  BY DEF Offered
<1> HIDE DEF taken
<1>5. PICK now \in {Rest, taken, query.now} : query' = [call |-> query.call, now |-> now]
  BY <1>4, WaitsFor
<1>6. NowOK(now, query.call)
  BY <1>1, <1>3
<1> QED  BY <1>1, <1>2, <1>5, <1>6, WaitingInv

\* Only an answer of the port, or with the number, that the call asked with is
\* taken for the call's.
LEMMA AnsweredInv ==
    ASSUME QueriesInv, NEW answer \in air, Answered(answer)
    PROVE  QueriesInv'
<1>1. /\ NowOK(query.now, query.call) /\ query.now # Rest /\ query.now.step = "answer"
      /\ Takes(answer) /\ UNCHANGED <<config, granted>>
  BY DEF QueriesInv, Answered
<1>2. CASE ~Accepts(answer)
  BY <1>1, <1>2, PassedOver DEF Answered
<1>3. CASE Accepts(answer)
  <2> DEFINE next == [query.now EXCEPT !.index = @ + 1, !.step = "arp", !.tries = 0]
  <2>1. last' = [op |-> query.now.op, call |-> query.call, index |-> query.now.index,
                 answer |-> answer]
    BY <1>3 DEF Answered
  <2>2. \E now \in {next, Rest} : Waits(now)
    BY <1>3 DEF Answered
  <2>3. NowOK(next, query.call)
    BY <1>1, DatagramGoesOn
  <2>4. NowOK(Rest, query.call)
    BY DEF NowOK
  <2> HIDE DEF next
  <2>5. PICK now \in {next, Rest} : query' = [call |-> query.call, now |-> now]
    BY <2>2, WaitsFor
  <2>6. query'.call = query.call /\ query'.now = now /\ NowOK(now, query.call)
    BY <2>3, <2>4, <2>5
  <2>7. AnswersItsRequest'
    <3>1. /\ last'.op = query.now.op /\ last'.call = query.call
          /\ last'.index = query.now.index /\ last'.answer = answer
      BY <2>1
    <3>2. CASE query.now.op = "udp"
      <4>1. answer.kind = "udp" /\ answer.port = query.now.port
        BY <1>3, <3>2 DEF Accepts, parse_udp_reply
      <4>2. query.now.port = query.call /\ query.call # Lookup
        BY <1>1, <3>2 DEF NowOK, SourcePort, Lookup
      <4>3. answer.port = Lookup \/ answer.port = answer.call
        BY <4>1 DEF QueriesInv, AnswerOK
      <4> QED  BY <3>1, <3>2, <4>1, <4>2, <4>3 DEF AnswersItsRequest
    <3>3. CASE query.now.op = "ping"
      <4>1. answer.index = query.now.index
        BY <1>3, <3>3 DEF Accepts, parse_echo_reply
      <4> QED  BY <3>1, <3>3, <4>1 DEF AnswersItsRequest
    <3> QED  BY <3>1, <3>2, <3>3 DEF AnswersItsRequest
  <2>8. ConfigIsALease'
    BY <1>1 DEF QueriesInv, QueriesAnswered, ConfigIsALease
  <2>9. \A a \in air' : AnswerOK(a, granted')
    BY <1>1, TakesAir
  <2>10. query' = [call |-> query'.call, now |-> query'.now] /\ query'.call \in Nat
    BY <2>5, <2>6 DEF QueriesInv
  <2> QED  BY <2>6, <2>7, <2>8, <2>9, <2>10 DEF QueriesInv, QueriesAnswered
<1> QED  BY <1>2, <1>3

LEMMA AcknowledgedInv ==
    ASSUME QueriesInv, NEW answer \in air, Acknowledged(answer)
    PROVE  QueriesInv'
<1>1. Takes(answer) /\ UNCHANGED <<granted, last>>
  BY DEF Acknowledged
<1>2. \A a \in air' : AnswerOK(a, granted')
  BY <1>1, TakesAir
<1>3. NowOK(Rest, query.call)
  BY DEF NowOK
<1>4. CASE answer.kind = "nak"
  <2>1. Waits(Rest) /\ UNCHANGED config
    BY <1>4 DEF Acknowledged
  <2> QED  BY <1>1, <1>2, <1>3, <2>1, WaitsFor, WaitingInv
<1>5. CASE answer.kind = "ack"
  <2>1. Waits(Rest) /\ config' = [server |-> answer.server, address |-> answer.address]
    BY <1>5 DEF Acknowledged, Lease
  <2>2. config' \in granted'
    BY <1>1, <1>5, <2>1 DEF QueriesInv, AnswerOK
  <2>3. query' = [call |-> query.call, now |-> Rest]
    BY <2>1, WaitsFor
  <2>4. query'.call = query.call /\ query'.now = Rest
    BY <2>3
  <2>5. QueriesAnswered'
    BY <1>1, <2>2 DEF QueriesInv, QueriesAnswered, AnswersItsRequest, ConfigIsALease
  <2>6. query' = [call |-> query'.call, now |-> query'.now] /\ query'.call \in Nat
    BY <2>3, <2>4 DEF QueriesInv
  <2> QED  BY <1>2, <1>3, <2>4, <2>5, <2>6 DEF QueriesInv
<1>6. CASE answer.kind \notin {"nak", "ack"}
  <2>1. UNCHANGED <<query, config>>
    BY <1>6 DEF Acknowledged
  <2> QED  BY <1>1, <2>1, PassedOver
<1> QED  BY <1>4, <1>5, <1>6

LEMMA QueriesStepInv == QueriesInv /\ [QueriesNext]_queryVars => QueriesInv'
<1> SUFFICES ASSUME QueriesInv, [QueriesNext]_queryVars PROVE QueriesInv'
  OBVIOUS
<1>1. CASE udp_exchange_isolated \/ dns_lookup_isolated \/ ping_text \/ renew_dhcp
  BY <1>1, BeginsInv
<1>2. CASE resolve_neighbor \/ PollsOut \/ Ask \/ Discover \/ Request
  BY <1>2, NeighborInv, PollsOutInv, AskInv, DiscoverInv, RequestInv
<1>3. ASSUME NEW answer \in air,
             NeighborKnown(answer) \/ Answered(answer) \/ Offered(answer) \/ Acknowledged(answer)
      PROVE  QueriesInv'
  BY <1>3, NeighborKnownInv, AnsweredInv, OfferedInv, AcknowledgedInv
<1>4. CASE UNCHANGED queryVars
  BY <1>4 DEF queryVars, QueriesInv, QueriesAnswered, AnswersItsRequest, ConfigIsALease
<1> QED  BY <1>1, <1>2, <1>3, <1>4 DEF QueriesNext

\* However many calls are made, and whatever is lost, late, repeated or left over
\* from an earlier one: a reply is that of the datagram or of the ping it is taken
\* for, and the configured address is one that its server acknowledged.
THEOREM QueriesAreAnswered == QueriesSpec => []QueriesAnswered
<1>1. QueriesInv => QueriesAnswered
  BY DEF QueriesInv
<1> QED  BY <1>1, QueriesInitInv, QueriesStepInv, PTL DEF QueriesSpec
=============================================================================
