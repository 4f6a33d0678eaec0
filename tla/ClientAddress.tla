--------------------------- MODULE ClientAddress ---------------------------
(***************************************************************************)
(* The address that the limiter and the sessions know a client by.  A      *)
(* request passes proxies, each of which appends the address it got it     *)
(* from to X-Forwarded-For; what the client itself put there comes first.  *)
(***************************************************************************)
EXTENDS Naturals, Sequences, SequencesExt

CONSTANTS
  Client,      \* addresses of clients
  Proxy,       \* addresses of proxies
  Trusted,     \* addresses within TrustedProxyCIDRs
  TrustProxy,  \* the setting
  Bad,         \* a part that is no address
  MaxParts,    \* 32 in the code; a header of more than 4096 bytes is answered
               \* like one of too many parts, and bytes are not counted here
  MaxSent      \* bound on the parts a client sends

AddressAssumption == Client \cap (Proxy \cup Trusted) = {} /\ Trusted \subseteq Proxy

VARIABLES
  client,   \* who sent the request
  peer,     \* the end of its last connection
  header,   \* the parts of X-Forwarded-For
  hops,     \* proxies it has passed
  known     \* what clientIP answered, or Bad

vars == <<client, peer, header, hops, known>>

Init ==
  /\ client \in Client
  /\ peer = client
  /\ header \in UNION {[1..n -> Client \cup Proxy \cup {Bad}] : n \in 0..MaxSent}
  /\ hops = << >>
  /\ known = Bad

\* A proxy passes the request on.
Hop(p) ==
  /\ known = Bad
  /\ Len(hops) < MaxParts
  /\ header' = Append(header, peer)
  /\ peer' = p
  /\ hops' = Append(hops, p)
  /\ UNCHANGED <<client, known>>

Edge(parts) == {i \in DOMAIN parts : parts[i] \notin Trusted}

(* Mutant: the first untrusted part, where the client should be.           *)
Leftmost(parts) == parts[CHOOSE i \in Edge(parts) : \A j \in Edge(parts) : i <= j]

\* The last part that no trusted proxy has.
Rightmost(parts) == parts[CHOOSE i \in Edge(parts) : \A j \in Edge(parts) : j <= i]

Readable(parts) == \A i \in DOMAIN parts : parts[i] # Bad

clientIP ==
  IF /\ TrustProxy /\ peer \in Trusted
     /\ header # << >> /\ Len(header) <= MaxParts
     /\ Readable(header)
     /\ Edge(header) # {}
  THEN Rightmost(header) ELSE peer

Answer ==
  /\ known = Bad
  /\ known' = clientIP
  /\ UNCHANGED <<client, peer, header, hops>>

Next == Answer \/ \E p \in Proxy : Hop(p)

Spec == Init /\ [][Next]_vars

-----------------------------------------------------------------------------
(* The client is known by its own address when all proxies are trusted, by *)
(* the nearest proxy that is not otherwise: never by what it wrote itself, *)
(* unless its header is unreadable or too long, when it shares the key of  *)
(* the proxy (rate_limit.go 88-128).                                       *)
KnownByTheNearestUntrusted ==
  known # Bad =>
    LET hand == IF Edge(hops) = {} THEN client ELSE Rightmost(hops)
    IN  IF TrustProxy /\ Readable(header) /\ Len(header) <= MaxParts THEN known = hand ELSE known = peer
=============================================================================
