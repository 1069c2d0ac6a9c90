----------------------------- MODULE UsbBackend ------------------------------
(***************************************************************************)
(* Starting the library when traces go over USB (src/zpl/zpl.c zpl_init,   *)
(* src/zpl/backends/usb_backend.c): register the descriptors, the          *)
(* configurations and the classes of the device one by one, initialise and *)
(* enable it, then emit the information about the calling thread.  Any     *)
(* registration may fail, and what was registered before stays.            *)
(***************************************************************************)
EXTENDS Integers, Sequences

VARIABLES
  bos,         \* CONFIG_USBD_BOS_SUPPORT
  high_speed,  \* the controller runs at high speed
  registered,  \* what has been registered, in order
  step,        \* the next step of the setup
  zpl          \* zpl_init: "setup", "failed" (it returned 1), "ready" (0)

usbVars == <<bos, high_speed, registered, step, zpl>>

If(condition, steps) == IF condition THEN steps ELSE <<>>

\* zpl_usbd_setup_device
SetupSteps ==
  << "manufacturer", "product" >>
  \o If(bos, << "bos descriptor", "full-speed bcdUSB" >>)
  \o If(high_speed, << "high-speed configuration" >>)
  \o If(high_speed /\ bos, << "high-speed bcdUSB" >>)
  \o If(high_speed, << "high-speed classes" >>)
  \o << "full-speed configuration", "full-speed classes", "code triple", "self powered" >>

\* Steps without a result
Certain == {"code triple", "self powered"}

\* zpl_usbd_init_device and zpl_init
InitSteps == SetupSteps \o << "init", "enable" >>

UsbInit ==
  /\ bos \in BOOLEAN /\ high_speed \in BOOLEAN
  /\ registered = <<>> /\ step = 1 /\ zpl = "setup"

Register ==
  /\ zpl = "setup" /\ step <= Len(InitSteps)
  /\ registered' = Append(registered, InitSteps[step])
  /\ step' = step + 1
  /\ UNCHANGED <<bos, high_speed, zpl>>

FailUnchecked ==                                \* mutant: the result is not looked at
  /\ zpl = "setup" /\ step <= Len(InitSteps)
  /\ step' = step + 1
  /\ UNCHANGED <<bos, high_speed, registered, zpl>>
\* zpl_init reports the failure; nothing is undone, and the library emits events all the same.
FailToRegister ==
  /\ zpl = "setup" /\ step <= Len(InitSteps) /\ InitSteps[step] \notin Certain
  /\ zpl' = "failed"
  /\ UNCHANGED <<bos, high_speed, registered, step>>

\* sys_port_trace_k_thread_info
EmitThreadInfo ==
  /\ zpl = "setup" /\ step > Len(InitSteps)
  /\ zpl' = "ready"
  /\ UNCHANGED <<bos, high_speed, registered, step>>

UsbNext == Register \/ FailToRegister \/ EmitThreadInfo

----------------------------------------------------------------------------
\* What is registered is what the setup has come to, without a gap although every step may
\* fail (usb_backend.c:109-199): classes after their configuration, the device enabled and
\* the thread information emitted after everything else (zpl.c:32-51).
UsbTypeOK ==
  /\ step \in 1..(Len(InitSteps) + 1) /\ zpl \in {"setup", "failed", "ready"}
  /\ registered = SubSeq(InitSteps, 1, step - 1)
  /\ zpl = "ready" => step > Len(InitSteps)
=============================================================================
