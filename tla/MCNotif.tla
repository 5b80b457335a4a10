------------------------------- MODULE MCNotif -------------------------------
(***************************************************************************)
(* Model-checks Notif: two read-write clients on one channel, two payloads *)
(* each client may broadcast, and one raw payload.                         *)
(***************************************************************************)
EXTENDS Notif

(***************************************************************************)
(* No send goroutine ever panics with "send on closed channel": a          *)
(* client's recv is closed by doClose (Start's unsubscribe or ctx case)    *)
(* only when no `go cl.send` to that client is still in its select.  The   *)
(* comment on send (notif.go:53) expects a slow consumer to be closed      *)
(* safely, and Close is the API's way to leave a channel.                  *)
(***************************************************************************)
NoSendOnClosed == crash # "sendOnClosed"

=============================================================================
