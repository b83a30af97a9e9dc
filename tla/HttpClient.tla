----------------------------- MODULE HttpClient -----------------------------
(***************************************************************************)
(* The kernel's web client (src/kernel/src/network.rs) and the signed      *)
(* package registry of the shell built on it (ayo_registry in shell.rs).   *)
(* A request is authorized, its URL parsed and confined, and only then are *)
(* the DNS worker, the TCP or TLS worker and the HTTP parser run, each a   *)
(* separate Ring 3 worker that can fail.  The call is synchronous, so the  *)
(* policy and the Handle change only between calls.                        *)
(* A URL is its scheme, host, written port and whether the rest of it is   *)
(* well formed; a body is its length, whether it was cut, and its bytes.   *)
(***************************************************************************)
EXTENDS Integers

CONSTANTS Urls, Allowed,     \* the URLs asked for; the hosts of an app's list
          ServerAddresses,         \* the hosts written as an IPv4 address
          Bodies,            \* what servers answer with
          Manifests          \* what a manifest body may say

VARIABLES policy,            \* radio and Handle, guest session
          web,               \* the call in progress
          registry,          \* the registry command in progress
          package            \* native_package: the staged transaction

webVars == <<policy, web, registry, package>>

NoUrl == [scheme |-> "none", host |-> "none", port |-> 0, wellformed |-> FALSE]
NoBody == [bytes |-> "none", length |-> 0, status |-> 0, truncated |-> FALSE]
NoManifest == [signed |-> FALSE, url |-> NoUrl, length |-> 0, bytes |-> "none"]
IdleCall == [phase |-> "idle", kind |-> "none", url |-> NoUrl, origin |-> NoUrl,
             body |-> NoBody, verified |-> FALSE]
NoTransaction == [phase |-> "idle", url |-> NoUrl, manifest |-> NoManifest]
NoPackage == [by |-> "none", manifest |-> NoManifest, from |-> NoUrl, body |-> NoBody]

\* NoPort stands for an authority without a port, as 0 is one that is refused.
NoPort == -1

HttpInit ==
    /\ policy = [radio |-> TRUE, handle |-> TRUE, guest |-> FALSE]
    /\ web = IdleCall /\ registry = NoTransaction /\ package = NoPackage

-----------------------------------------------------------------------------
(* URLs. *)

default_port(scheme) == IF scheme = "https" THEN 443 ELSE 80
Port(url) == IF url.port = NoPort THEN default_port(url.scheme) ELSE url.port

\* What parse_http_url takes: a secure URL must name a DNS host.
parse_http_url(url) ==
    /\ url.scheme \in {"http", "https"} /\ url.wellformed /\ url.port # 0
    /\ ~(url.scheme = "https" /\ url.host \in ServerAddresses)

https_endpoint_allowed(url) ==
    url.scheme = "https" /\ Port(url) = 443 /\ url.host \in Allowed

\* Mutant: the port is not part of an origin.
MutantSameOrigin(origin, url) ==
    origin.scheme = "https" /\ url.scheme = "https" /\ origin.host = url.host

same_origin(origin, url) ==
    /\ origin.scheme = "https" /\ url.scheme = "https"
    /\ Port(origin) = Port(url) /\ origin.host = url.host

-----------------------------------------------------------------------------
(* One call. *)

authorize_network == policy.radio /\ policy.handle

\* The five entry points and what each asks of its URL.
Confined(kind, origin, url) ==
    CASE kind \in {"fetch", "range", "browser"} -> parse_http_url(url)
      [] kind = "allowlisted" -> parse_http_url(url) /\ https_endpoint_allowed(url)
      [] kind = "same_origin" -> /\ parse_http_url(origin) /\ parse_http_url(url)
                                 /\ same_origin(origin, url)

Opened(kind, origin, url) ==
    [IdleCall EXCEPT !.kind = kind, !.url = url, !.origin = origin,
                     !.phase = IF authorize_network /\ Confined(kind, origin, url)
                                 THEN "dns" ELSE "failed"]

http_get ==
    /\ web.phase = "idle" /\ registry = NoTransaction
    /\ \E url \in Urls : web' = Opened("fetch", NoUrl, url)
    /\ UNCHANGED <<policy, registry, package>>

\* An empty range and an unusable header value fail like an unusable URL.
web_get_range ==
    /\ web.phase = "idle" /\ registry = NoTransaction
    /\ \E url \in Urls : \/ web' = Opened("range", NoUrl, url)
                         \/ web' = [IdleCall EXCEPT !.kind = "range", !.phase = "failed"]
    /\ UNCHANGED <<policy, registry, package>>

browser_get ==
    /\ web.phase = "idle" /\ registry = NoTransaction
    /\ \E url \in Urls : \/ web' = Opened("browser", NoUrl, url)
                         \/ web' = [IdleCall EXCEPT !.kind = "browser", !.phase = "failed"]
    /\ UNCHANGED <<policy, registry, package>>

https_get_allowlisted ==
    /\ web.phase = "idle" /\ registry = NoTransaction
    /\ \E url \in Urls : web' = Opened("allowlisted", NoUrl, url)
    /\ UNCHANGED <<policy, registry, package>>

\* http_get_authorized: the request is built (a long one fails), then the
\* host is resolved; an address resolves to itself.
Resolve ==
    /\ web.phase = "dns"
    /\ \/ web' = [web EXCEPT !.phase = IF web.url.scheme = "https" THEN "tls" ELSE "tcp"]
       \/ web' = [web EXCEPT !.phase = "failed"]
    /\ UNCHANGED <<policy, registry, package>>

tcp_exchange_isolated ==
    /\ web.phase = "tcp"
    /\ \/ \E body \in Bodies : web' = [web EXCEPT !.phase = "parse", !.body = body]
       \/ web' = [web EXCEPT !.phase = "failed"]
    /\ UNCHANGED <<policy, registry, package>>

\* The worker's reply is used only when it names the trust anchor that the
\* kernel expects for the host.
https_exchange_isolated ==
    /\ web.phase = "tls"
    /\ \E body \in Bodies, trusted \in BOOLEAN :
         web' = IF trusted THEN [web EXCEPT !.phase = "parse", !.body = body, !.verified = TRUE]
                ELSE [web EXCEPT !.phase = "failed"]
    /\ UNCHANGED <<policy, registry, package>>

parse_http_isolated ==
    /\ web.phase = "parse"
    /\ \/ web' = [web EXCEPT !.phase = "done"]
       \/ web' = [web EXCEPT !.phase = "failed", !.body = NoBody]
    /\ UNCHANGED <<policy, registry, package>>

\* The answer reaches a caller that is not the registry.
Returns ==
    /\ web.phase \in {"done", "failed"} /\ registry = NoTransaction
    /\ web' = IdleCall
    /\ UNCHANGED <<policy, registry, package>>

-----------------------------------------------------------------------------
(* ayo registry install. *)

ayo_registry ==
    /\ web.phase = "idle" /\ registry = NoTransaction
    /\ ~policy.guest /\ package = NoPackage
    /\ \E url \in Urls :
         /\ registry' = [NoTransaction EXCEPT !.phase = "manifest", !.url = url]
         /\ web' = Opened("same_origin", url, url)
    /\ UNCHANGED <<policy, package>>

Stops == web' = IdleCall /\ registry' = NoTransaction /\ UNCHANGED <<policy, package>>

\* The manifest: 200, whole, and signed with the key the user gave.
parse_signed_registry_manifest ==
    /\ registry.phase = "manifest" /\ web.phase \in {"done", "failed"}
    /\ \/ Stops
       \/ /\ web.phase = "done" /\ web.body.status = 200
          /\ ~web.body.truncated /\ web.body.length # 0
          /\ \E m \in Manifests :
               /\ m.signed /\ m.url.scheme = "https"
               /\ registry' = [registry EXCEPT !.phase = "artifact", !.manifest = m]
               /\ web' = Opened("same_origin", registry.url, m.url)
          /\ UNCHANGED <<policy, package>>

\* The artifact: 200, whole, of the declared length and digest.
Verified ==
    /\ web.phase = "done" /\ web.body.status = 200 /\ ~web.body.truncated
    /\ web.body.length = registry.manifest.length
    /\ web.body.bytes = registry.manifest.bytes

StageArtifact ==
    /\ registry.phase = "artifact" /\ web.phase \in {"done", "failed"}
    /\ \/ ~Verified /\ Stops
       \/ /\ Verified
          /\ package' = [by |-> "registry", manifest |-> registry.manifest,
                         from |-> web.url, body |-> web.body]
          /\ registry' = [registry EXCEPT !.phase = "staged"] /\ web' = IdleCall
          /\ UNCHANGED policy

\* commit_native_package takes the transaction, published or not; the user
\* may also commit or abort one staged by hand.
commit_native_package ==
    /\ registry.phase \in {"staged", "idle"} /\ web.phase = "idle"
    /\ package # NoPackage
    /\ registry' = NoTransaction /\ package' = NoPackage
    /\ UNCHANGED <<policy, web>>

\* ayo native begin: a transaction staged by hand, one at a time.
ayo_native_begin ==
    /\ web.phase = "idle" /\ registry = NoTransaction
    /\ ~policy.guest /\ package = NoPackage
    /\ package' = [NoPackage EXCEPT !.by = "hand"]
    /\ UNCHANGED <<policy, web, registry>>

\* Radio, Handle and session change between commands.
PolicyChanges ==
    /\ web.phase = "idle" /\ registry = NoTransaction
    /\ policy' \in [radio : BOOLEAN, handle : BOOLEAN, guest : BOOLEAN]
    /\ UNCHANGED <<web, registry, package>>

HttpNext ==
    \/ http_get \/ web_get_range \/ browser_get \/ https_get_allowlisted
    \/ Resolve \/ tcp_exchange_isolated \/ https_exchange_isolated \/ parse_http_isolated
    \/ Returns \/ ayo_registry \/ parse_signed_registry_manifest \/ StageArtifact
    \/ commit_native_package \/ ayo_native_begin
    \/ PolicyChanges

HttpSpec == HttpInit /\ [][HttpNext]_webVars

-----------------------------------------------------------------------------
OnTheWire == web.phase \in {"dns", "tcp", "tls"}

(* "Capability authorization happens before the NIC lock, DNS query, or    *)
(* TCP packet transmission": no worker runs for a call the policy and the  *)
(* Handle do not allow, the second call of a registry install included.    *)
TrafficAuthorized == OnTheWire => policy.radio /\ policy.handle

(* A call confined to hosts or to an origin never leaves them: an app with *)
(* a host list reaches those hosts over HTTPS on the default port, and a   *)
(* registry artifact comes from the scheme, host and port of its manifest. *)
EndpointsConfined ==
    OnTheWire =>
      /\ web.kind = "allowlisted" => https_endpoint_allowed(web.url)
      /\ web.kind = "same_origin" => /\ web.url.scheme = "https" /\ web.url.host = registry.url.host
                                     /\ Port(web.url) = Port(registry.url)

(* What is staged for installation is the artifact the signed manifest     *)
(* describes, complete, and fetched from the manifest's own origin.        *)
StagedIsSigned ==
    package.by = "registry" =>
      /\ package.manifest.signed /\ ~package.body.truncated
      /\ package.body.bytes = package.manifest.bytes
      /\ package.body.length = package.manifest.length
      /\ package.from = package.manifest.url

(* A transaction the user staged by hand is only ever committed or aborted *)
(* by the user: a registry install neither replaces nor takes it.          *)
HandStagedKept ==
    [][package.by = "hand" /\ package' # package
         => package' = NoPackage /\ registry = NoTransaction]_webVars

(* An answer to an HTTPS request is handed on only if the worker proved    *)
(* the trust anchor expected for that DNS name.                            *)
SecureAnswersVerified ==
    (web.phase \in {"parse", "done"} /\ web.url.scheme = "https")
      => web.verified /\ web.url.host \notin ServerAddresses

\* Requests leave only where policy and Handle allow, to the endpoints their
\* caller may reach, and what is believed or staged has been verified.
WebTrusted ==
    /\ [](TrafficAuthorized /\ EndpointsConfined /\ StagedIsSigned /\ SecureAnswersVerified)
    /\ HandStagedKept
=============================================================================
