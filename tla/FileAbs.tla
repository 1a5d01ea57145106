------------------------------ MODULE FileAbs ------------------------------
(***************************************************************************)
(* What a NOVA file promises to a writer (spec.md sections 1, 4.2, 7):     *)
(* a write call either publishes a prefix of its payload atomically and    *)
(* reports exactly the length of that prefix, or fails and changes         *)
(* nothing.  A crash loses the call in flight but never the published      *)
(* content.  Bytes at or beyond the file size read as zero.                *)
(***************************************************************************)
EXTENDS Integers

CONSTANTS FileLen,   \* bytes the file may hold in the model
          Tags,      \* payload carried by each write call
          None       \* no call in flight

Bytes == 0 .. FileLen - 1

VARIABLES data,   \* the byte array a reader sees
          size,   \* the file size a reader sees
          req,    \* the write call in flight, or None
          reply   \* the value the last completed call returned

vars == <<data, size, req, reply>>

Init ==
  /\ data = [x \in Bytes |-> 0]
  /\ size = 0
  /\ req = None
  /\ reply = [tag |-> 0, val |-> 0]

\* A call for len bytes of payload tag at pos begins.
Begin(tag, pos, len) ==
  /\ req = None
  /\ req' = [tag |-> tag, pos |-> pos, len |-> len]
  /\ UNCHANGED <<data, size, reply>>

\* The call publishes the first k bytes of its payload and returns k.
Complete(k) ==
  /\ req # None
  /\ k \in 0 .. req.len
  /\ data' = [x \in Bytes |-> IF req.pos <= x /\ x < req.pos + k
                              THEN req.tag ELSE data[x]]
  /\ size' = IF k > 0 /\ req.pos + k > size THEN req.pos + k ELSE size
  /\ reply' = [tag |-> req.tag, val |-> k]
  /\ req' = None

\* The call fails with a negative error code and changes nothing.
Fail(err) ==
  /\ req # None
  /\ err < 0
  /\ reply' = [tag |-> req.tag, val |-> err]
  /\ req' = None
  /\ UNCHANGED <<data, size>>

\* A call rejected before it starts (access_ok, file_remove_privs).
Reject(tag, err) ==
  /\ req = None
  /\ err < 0
  /\ reply' = [tag |-> tag, val |-> err]
  /\ UNCHANGED <<data, size, req>>

\* A crash abandons the call in flight.
Crash ==
  /\ req' = None
  /\ UNCHANGED <<data, size, reply>>

Next ==
  \/ \E tag \in Tags, pos \in Bytes, len \in 1 .. FileLen : Begin(tag, pos, len)
  \/ \E k \in 0 .. FileLen : Complete(k)
  \/ \E err \in -64 .. -1 : Fail(err)
  \/ \E tag \in Tags, err \in -64 .. -1 : Reject(tag, err)
  \/ Crash

Spec == Init /\ [][Next]_vars
=============================================================================
