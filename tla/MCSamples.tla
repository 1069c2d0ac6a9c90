------------------------------ MODULE MCSamples ------------------------------
(***************************************************************************)
(* The programs that run on a board, one per behaviour: which image is     *)
(* flashed is chosen at the start, and the images share no state.  An      *)
(* image that is not flashed keeps its initial state.                      *)
(***************************************************************************)
EXTENDS TvmKernels, SmpRing, SmpTvm, SensorDemo, FrameLink, ModelSamples, TraceEmission,
        UsbBackend

Images == {"kernels", "smp", "smp_tvm", "demo", "micro_speech", "models", "emission", "usb"}

VARIABLE image

vars ==
  <<image, kernelVars, ringVars, smpVars, demoVars, linkVars, sampleVars, emissionVars, usbVars>>

\* The choices of an image are made only when it is flashed.  A thread that starts with its
\* instrumentation off is checked with every flag on, and so are all builds but one.
Init ==
  /\ image \in Images
  /\ KernelInit /\ (image # "kernels" => model = "quantized")
  /\ RingInit /\ SmpInit /\ DemoInit /\ LinkInit
  /\ SampleInit /\ (image # "models" => program = tflm_inference)
  /\ EmissionInit /\ (image # "emission" => conf = Flags /\ initially.load)
  /\ initially.main /\ (conf # Flags => initially.load)
  /\ (image # "emission" \/ conf # Flags \/ ~initially.load
        => build.profiler = zpl_profile_cpu_load)
  /\ UsbInit /\ (image # "usb" => ~bos /\ ~high_speed)

Flashed(i) ==
  /\ image = i /\ UNCHANGED image
  /\ i # "kernels"      => UNCHANGED kernelVars
  /\ i # "smp"          => UNCHANGED ringVars
  /\ i # "smp_tvm"      => UNCHANGED smpVars
  /\ i # "demo"         => UNCHANGED demoVars
  /\ i # "micro_speech" => UNCHANGED linkVars
  /\ i # "models"       => UNCHANGED sampleVars
  /\ i # "emission"     => UNCHANGED emissionVars
  /\ i # "usb"          => UNCHANGED usbVars

Next ==
  \/ Flashed("kernels")      /\ KernelNext
  \/ Flashed("smp")          /\ RingNext
  \/ Flashed("smp_tvm")      /\ SmpNext
  \/ Flashed("demo")         /\ DemoNext
  \/ Flashed("micro_speech") /\ LinkNext
  \/ Flashed("models")       /\ SampleNext
  \/ Flashed("emission")     /\ EmissionNext
  \/ Flashed("usb")          /\ UsbNext

\* The scheduler runs every ready thread in the end, on the CPU it is pinned to.  A worker of
\* smp_tvm is ready only while main is not on its CPU; main sleeps 50 ms after every request,
\* and in those the worker gets on.
Fairness ==
  /\ WF_vars(Flashed("smp") /\ StartThread)
  /\ \A i \in Threads : WF_vars(Flashed("smp") /\ (TakeTurn(i) \/ PassTurn(i)))
  /\ WF_vars(Flashed("smp_tvm") /\ MainStep)
  /\ \A i \in Workers : SF_vars(Flashed("smp_tvm") /\ Worker(i))

Spec == Init /\ [][Next]_vars /\ Fairness

\* The types of every image, and what must hold of it at each step beside its own property:
\* most of all that the setup of the USB backend leaves nothing out.
SamplesTypeOK ==
  /\ KernelTypeOK /\ RingTypeOK /\ SmpTypeOK /\ DemoTypeOK /\ LinkTypeOK
  /\ SampleTypeOK /\ EmissionTypeOK /\ UsbTypeOK
=============================================================================
