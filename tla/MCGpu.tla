-------------------------------- MODULE MCGpu --------------------------------
(* How many GPU tasks the applications of module GpuView execute.          *)
EXTENDS GpuView

TwoAndOne == <<2, 1>>
=============================================================================
