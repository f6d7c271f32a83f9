---------------------------- MODULE BlockDevice ----------------------------
(***************************************************************************)
(* What a session of the NBD server promises its client, whatever the      *)
(* loops, buffers and retries behind it: a device that serves one request  *)
(* at a time.  A READ hands out the blocks of its range in order, a WRITE  *)
(* puts blocks of its payload in their places, and success is only         *)
(* answered when all of that has been done.  A session may be closed at    *)
(* any time, and promises nothing more once it is broken.                  *)
(***************************************************************************)
EXTENDS Naturals, Sequences

CONSTANTS
    Blocks,       \* the blocks of the device
    Types,        \* of requests
    Results

VARIABLES
    mode,         \* "idle", "busy", "closed" or "broken"
    req,          \* the request in hand: [type, first, n]
    device,       \* block -> content
    before,       \* the device when the request came
    data,         \* the blocks handed out
    result        \* the result, which counts when the session is idle

vars == <<mode, req, device, before, data, result>>

Orders == [type : Types, first : Nat, n : Nat]
Range == req.first .. req.first + req.n - 1
Payload(b) == b - req.first + 1   \* the block of the client's payload for b

Init ==
    /\ mode = "idle"
    /\ req \in Orders
    /\ device = [b \in Blocks |-> 0]
    /\ before = device
    /\ data = <<>>
    /\ result \in Results

\* A request comes; after the one to disconnect the session is closed.
Issue ==
    /\ mode = "idle" /\ mode' \in {"busy", "closed"}
    /\ req' \in Orders
    /\ before' = device /\ data' = <<>>
    /\ UNCHANGED device
    /\ result' \in Results

\* The blocks handed out are the first ones of the range.
HandsOut ==
    data' # data =>
        /\ req.type = "READ"
        /\ Len(data) <= Len(data') /\ Len(data') <= req.n
        /\ \A i \in 1 .. Len(data') : data'[i] = req.first + i - 1

Transfer ==
    /\ mode = "busy" /\ mode' = "busy"
    /\ HandsOut
    /\ \A b \in Blocks :
          device'[b] # device[b] =>
              req.type = "WRITE" /\ b \in Range /\ device'[b] = Payload(b)
    /\ result' \in Results
    /\ UNCHANGED <<req, before>>

Done ==
    /\ req.type = "READ" => Len(data') = req.n
    /\ req.type = "WRITE" =>
          device = [b \in Blocks |-> IF b \in Range THEN Payload(b) ELSE before[b]]

Complete ==
    /\ mode = "busy" /\ mode' = "idle"
    /\ HandsOut
    /\ result' \in Results
    /\ result' = "SUCCESS" => Done
    /\ UNCHANGED <<req, device, before>>

Close ==
    /\ mode \in {"idle", "busy"} /\ mode' = "closed"
    /\ UNCHANGED <<req, device, before, data>>

\* Nothing is said of a broken session, but that breaking it changes no block.
Break ==
    /\ mode \in {"idle", "busy"} /\ mode' = "broken"
    /\ UNCHANGED device
Broken == mode = "broken" /\ mode' = "broken"

Next == Issue \/ Transfer \/ Complete \/ Close \/ Break \/ Broken

Spec == Init /\ [][Next]_vars
=============================================================================
