------------------------------ MODULE Redirects ------------------------------
(***************************************************************************)
(* How the guarded fetch follows redirects (src/egress.ts). A URL is       *)
(* [host, port, path]; what follows a # never reaches a server and is left *)
(* out.                                                                    *)
(***************************************************************************)
EXTENDS Integers, Sequences, FiniteSets

CONSTANTS
  Configured,    \* allowedHosts and the hosts scoped to this call
  Itself,        \* the names of loopback
  MaxRedirects   \* MAX_EGRESS_REDIRECTS

ASSUME RedirectsAssumption == MaxRedirects \in Nat

Origin(url) == <<url.host, url.port>>
IsAllowed(url) == url.host \in Configured \cup Itself
IsRedirectAllowed(url) == url.host \in Configured

\* A site maps each URL to its answer: final, or a redirect to a URL, or one whose
\* location is no URL. Methods and bodies are left out.
Final == [kind |-> "final"]
Invalid == [kind |-> "invalid"]
Redirect(url) == [kind |-> "redirect", to |-> url]

\* A request on its way: where to, with the caller's credentials or without, and what
\* has been sent.
Request(url) == [url |-> url, credentials |-> TRUE, sent |-> <<>>, outcome |-> "open"]
Sent(r) == [r EXCEPT !.sent = Append(@, [url |-> r.url, credentials |-> r.credentials])]
Ended(r, outcome) == [r EXCEPT !.outcome = outcome]

\* redirectedRequest: credentials never cross an origin.
CredentialsTo(r, url) == r.credentials
Credentials(r, url) == r.credentials /\ Origin(r.url) = Origin(url)
Redirected(r, answer) ==
  [r EXCEPT !.url = answer.to, !.credentials = Credentials(r, answer.to)]

Visited(r) == {r.sent[i].url : i \in DOMAIN r.sent}

\* One turn of the loop; refusals in the order the code tests for them. After n
\* redirects n + 1 requests have been sent.
Turn(site, mode, request) ==
  LET r == Sent(request)
      answer == site[r.url]
  IN IF answer.kind = "final" \/ mode = "manual" THEN Ended(r, "response")
     ELSE IF mode = "error" THEN Ended(r, "error")
     ELSE IF answer.kind = "invalid" THEN Ended(r, "invalid_location")
     ELSE IF Len(r.sent) > MaxRedirects THEN Ended(r, "too_many")
     ELSE IF answer.to \in Visited(r) THEN Ended(r, "loop")
     ELSE IF ~IsRedirectAllowed(answer.to) THEN Ended(r, "denied")
     ELSE Redirected(r, answer)

Fetch(site, mode, url) ==
  LET after[n \in 0 .. MaxRedirects + 1] ==
        IF n = 0 THEN IF IsAllowed(url) THEN Request(url) ELSE Ended(Request(url), "denied")
        ELSE IF after[n - 1].outcome = "open" THEN Turn(site, mode, after[n - 1]) ELSE after[n - 1]
  IN after[MaxRedirects + 1]

(***************************************************************************)
(* What following promises: it ends; it asks no URL twice and no host that *)
(* is not configured, loopback only as the caller's own target;            *)
(* credentials stay with the origin they were given for, and a chain that  *)
(* comes back to it does not get them again.                               *)
(***************************************************************************)
FollowsSafely(site, mode, url) ==
  LET r == Fetch(site, mode, url)
      asked == [i \in DOMAIN r.sent |-> r.sent[i].url]
  IN /\ r.outcome # "open" /\ Len(r.sent) <= MaxRedirects + 1
     /\ \A i, j \in DOMAIN asked : i < j => asked[i] # asked[j]
     /\ \A i \in DOMAIN asked :
          /\ asked[i].host \in Configured \/ (i = 1 /\ asked[i].host \in Itself)
          /\ r.sent[i].credentials <=> \A k \in 1 .. i : Origin(asked[k]) = Origin(url)
          /\ i > 1 => site[asked[i - 1]].kind = "redirect" /\ site[asked[i - 1]].to = asked[i]
     /\ r.sent # <<>> /\ r.outcome = "response" /\ mode = "follow" =>
          site[asked[Len(asked)]].kind = "final"
=============================================================================
