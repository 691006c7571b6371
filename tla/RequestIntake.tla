---------------------------- MODULE RequestIntake ----------------------------
(***************************************************************************)
(* What happens to a request before a route sees it: MaxBodySizeMiddleware   *)
(* and the address the rate limiter counts it under.  A body arrives in      *)
(* messages [type, bytes, more]; `declared` is its Content-Length, None when *)
(* there is none that can be read.                                          *)
(***************************************************************************)
EXTENDS Ranking

(* The running total of the body after `n` messages. *)
Sent(messages, n) == IF n = 0 THEN 0 ELSE SumOver(SubSeq(messages, 1, n), LAMBDA m : m.bytes)

(* Fault: bytes are counted per message. *)
OverLimit_PerMessage(messages, n, limit) == messages[n].bytes > limit

OverLimit(messages, n, limit) == Sent(messages, n) > limit

(* The messages the middleware need not read past: the last of the body, a    *)
(* disconnect, and those over the limit.                                     *)
Deciding(messages, limit) ==
    {n \in 1..Len(messages) :
       messages[n].type # "http.request" \/ OverLimit(messages, n, limit) \/ ~messages[n].more}

TooLong(declared, limit) == declared # None /\ declared > limit

(* It awaits a message that decides, unless the header did. *)
Drained(declared, messages, limit) == TooLong(declared, limit) \/ Deciding(messages, limit) # {}

(* The app is given what was collected, as one whole body; `read` counts the   *)
(* messages of the body that were looked at.                                 *)
MaxBodySize(declared, messages, limit) ==
    LET n == Min(Deciding(messages, limit))
        read == IF messages[n].type = "http.request" THEN n ELSE n - 1
    IN IF TooLong(declared, limit) THEN [status |-> 413, read |-> 0, body |-> 0]
       ELSE IF messages[n].type = "http.request" /\ OverLimit(messages, n, limit)
            THEN [status |-> 413, read |-> read, body |-> 0]
            ELSE [status |-> 200, read |-> read, body |-> Sent(messages, read)]

(* The entry the outermost trusted proxy wrote, if there are as many. *)
real_client_ip(peer, hops, count) ==
    IF count > 0 /\ Len(hops) >= count THEN hops[Len(hops) - count + 1] ELSE peer

-----------------------------------------------------------------------------
(* The app is given no body over the limit, whatever length was declared, and *)
(* what is refused is over it by its header or by the bytes that came; no     *)
(* more is read than decides that, and what is let through is the whole body, *)
(* up to its last message or a disconnect.                                   *)
BodyBounded(declared, messages, limit, result) ==
    LET over == {n \in 1..Len(messages) : Sent(messages, n) > limit}
    IN /\ ~(result.body > limit)
       /\ result.status = 413 <=> TooLong(declared, limit) \/ result.read \in over
       /\ over # {} => result.read <= Min(over)
       /\ result.status = 200 =>
            /\ result.body = Sent(messages, result.read)
            /\ \A n \in 1..result.read : messages[n].type = "http.request" /\ (messages[n].more \/ n = result.read)
            /\ \/ result.read \in 1..Len(messages) /\ ~messages[result.read].more
               \/ result.read + 1 \in 1..Len(messages) /\ messages[result.read + 1].type # "http.request"

(* What the client writes into the header itself does not move its address:   *)
(* only the entries of the trusted proxies count.                            *)
AddressAnchored(peer, hops, count, address) ==
    Len(hops) > count => address = real_client_ip(peer, Tail(hops), count)
=============================================================================
