------------------------------ MODULE CamSampler ------------------------------
(***************************************************************************)
(* camera_sampler.vhd: synchroniser, frame FSM and Bayer converter in a    *)
(* row.  SamplerClock is one rising edge of pixclk; f, l and d are what    *)
(* the camera puts out before it.                                          *)
(***************************************************************************)
EXTENDS CamFsm, CamConverter

VARIABLES
  sf, sl, sd    \* f_reg_out, l_reg_out and data_reg_out of the synchroniser

samplerVars == <<sf, sl, sd, fsmVars, converterVars>>

(***************************************************************************)
(* camera_sampler_sync.vhd samples on the falling edge and passes on with  *)
(* the next rising one, so it delays the camera by one clock.              *)
(***************************************************************************)
SyncClock(f, l, d) == sf' = f /\ sl' = l /\ sd' = d

SamplerInit(zero) ==
  /\ sf = FALSE /\ sl = FALSE /\ sd = zero
  /\ FsmInit(zero) /\ ConverterInit(zero)

SamplerClock(start, snapshot, height, width, f, l, d) ==
  /\ SyncClock(f, l, d)
  /\ FsmClock(start, snapshot, height, sf, sl, sd)
  /\ ConverterClock(ScanRow1, ScanRow2, pixel, SamplerIdle, width)

SamplerTypeOK == /\ {sf, sl} \subseteq BOOLEAN
                 /\ FsmTypeOK /\ ConverterTypeOK
=============================================================================
