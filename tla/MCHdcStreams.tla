---------------------------- MODULE MCHdcStreams ----------------------------
(***************************************************************************)
(* What carries the bytes of a session: the stream of packets a worker     *)
(* reads, whatever the transport, and the USB transport with its           *)
(* endpoints, readers and resets.  The two share no state; a behaviour     *)
(* moves one of them.                                                      *)
(***************************************************************************)
EXTENDS HdcFraming, HdcUsb

CONSTANTS t1, t2

VARIABLE active

\* A good packet, one that ioBuf cannot hold, and one of each invalid kind.
AllPackets == {[kind |-> "ok", size |-> 1], [kind |-> "ok", size |-> 5],
               [kind |-> "head", size |-> 0], [kind |-> "body", size |-> 1],
               [kind |-> "refused", size |-> 2]}

MCInit ==
  /\ active \in {"framing", "usb"}
  /\ Init /\ (active = "usb" => pkt = [t \in Sender |-> CHOOSE p \in Packet : TRUE])
  /\ UsbInit

MCNext ==
  /\ UNCHANGED active
  /\ \/ active = "framing" /\ Next /\ UNCHANGED usbVars
     \/ active = "usb" /\ UsbNext /\ UNCHANGED vars

\* Timers, threads and the loops run; the daemon's endpoints open when tried
\* often enough (MaxEpResets permitting).
UsbFair ==
  /\ WF_usbVars(active = "usb" /\ WatchEPTimer)
  /\ WF_usbVars(active = "usb" /\ CloseBulkEp)
  /\ WF_usbVars(active = "usb" /\ OnUSBRead)
  /\ \A s \in UsbIds :
       /\ WF_usbVars(active = "usb" /\ HostHandleFree(s))
       /\ WF_usbVars(active = "usb" /\ ReaderCheck(s))
       /\ WF_usbVars(active = "usb" /\ SubmitUsbBio(s))
       /\ WF_usbVars(active = "usb" /\ TransferFails(s))
       /\ WF_usbVars(active = "usb" /\ ReaderUnref(s))
       /\ WF_usbVars(active = "usb" /\ ReaderEnds(s))
       /\ WF_usbVars(active = "usb" /\ HostFreeOpeate(s))

\* Nothing of the framing is enabled where it begins: its fairness asks nothing of
\* a behaviour of the other part.
MCSpec ==
  /\ MCInit /\ [][MCNext]_<<active, vars, usbVars>>
  /\ FramingFair /\ UsbFair

\* The USB transport comes back after every failure: the host deletes the
\* session that is dead, because CancelUsbIo gets its reader out, and the
\* daemon opens its endpoints and reads again (WatchEPTimer, atPollQueue).
UsbComesBack ==
  /\ \A s \in UsbIds : []<>(active = "usb" => DeadReaderOut(s))
  /\ []<>(active = "usb" => EndpointRead)
=============================================================================
