---------------------------- MODULE GpuCommands ----------------------------
(***************************************************************************)
(* The command buffers the Vulkan classes record: for each operation the   *)
(* sequence of dispatches, copies, fills and pipeline barriers, with the   *)
(* buffers each touches.  What a dispatch touches follows from what its    *)
(* shader does with each binding and from the buffers the descriptor set   *)
(* binds there.  The three planes of a colour are one buffer, except where *)
(* the RCD passes touch them one at a time.                                *)
(*                                                                         *)
(* An operation is a record:                                               *)
(*   stream   the command buffer,                                          *)
(*   uploads  the buffers the host writes before,                          *)
(*   results  the buffers the host reads after, image is the encoder's,    *)
(*   resets, stamps, reads  the timestamp pairs the command buffer resets, *)
(*            those it writes, and those the host then reads and waits for.*)
(*                                                                         *)
(* Definitions marked Faulty are not part of the specification: each is    *)
(* the definition after it with one plausible mistake.                     *)
(***************************************************************************)
EXTENDS RcdDemosaic, Sequences

\* Kinds of access: shader read and write, transfer read and write, host read.
DeviceKinds == {"R", "W", "TR", "TW"}

Work(stage, reads, writes) ==
  [stage |-> stage, reads |-> reads, writes |-> writes,
   src |-> {}, dst |-> {}, scope |-> {}]

\* Of every buffer in bufs, accesses of the kinds in `from' are made visible
\* to those of the kinds in `to'.
Scope(bufs, from, to) == {<<b, from, to>> : b \in bufs}

Barrier(src, dst, scope) ==
  [stage |-> "barrier", reads |-> {}, writes |-> {},
   src |-> src, dst |-> dst, scope |-> scope]

ShaderBarrier(scope) == Barrier({"compute"}, {"compute"}, scope)
Copy(a, b) == Work("transfer", {a}, {b})
Fill(b) == Work("transfer", {}, {b})

-----------------------------------------------------------------------------
(* Shaders: the bindings each reads and writes.                            *)

CameraToDwg == Access({1}, {2})
SharpenTargetLinear == Access({1}, {2})
\* Input, output, LUT and the status word, which is or-ed atomically.
DavinciIntermediate == Access({1, 3, 4}, {2, 4})
CalibrateRaw == Access({1}, {2})
RgbToYuv422 == Access({1}, {2})

\* set is a descriptor set: for each binding the buffers bound there.
Dispatch(shader, set) ==
  Work("compute", UNION {set[i] : i \in shader.reads},
       UNION {set[i] : i \in shader.writes})

RcdBindings == <<"calibrated", "cfa", "red", "green", "blue", "vh", "aux_a",
                 "aux_b", "aux_c">>

\* What the passes touch is found on a grid large enough for every guard.
RcdAccess ==
  LET grid == [w |-> 20, h |-> 20, cfa |-> 0]
  IN  << >> \o [n \in 1..8 |-> PassAccess(n - 1, grid)]

RcdDispatch(n, set) ==
  LET bound(names) == UNION {set[i] : i \in {k \in 1..9 : RcdBindings[k] \in names}}
  IN  Work("compute", bound(RcdAccess[n + 1].reads), bound(RcdAccess[n + 1].writes))

-----------------------------------------------------------------------------
(* VulkanRgbToYuvFrameWriter.                                              *)

CameraRgb == {"camera0", "camera1", "camera2"}
RcdScratch == {"scratch0", "scratch1", "scratch2", "scratch3", "scratch4"}

\* The DI LUT is copied once, by the constructor.
WriterLut ==
  [stream |-> <<Copy("staging", "lut"),
                Barrier({"transfer"}, {"compute"}, Scope({"lut"}, {"TW"}, {"R"}))>>,
   uploads |-> {"staging"}, results |-> {"lut"},
   resets |-> {}, stamps |-> {}, reads |-> {}]

WriterSets ==
  [color |-> <<{"input"}, {"rgb0"}>>,
   sharpen |-> <<{"rgb0"}, {"rgb1"}>>,
   di |-> <<{"rgb1"}, {"rgb0"}, {"lut"}, {"status"}>>,
   raw_color |-> <<CameraRgb, {"rgb0"}>>,
   calibration |-> <<{"raw"}, {"calibrated"}>>,
   rcd |-> <<{"calibrated"}, {"scratch0"}, {"camera0"}, {"camera1"},
             {"camera2"}, {"scratch1"}, {"scratch2"}, {"scratch3"},
             {"scratch4"}>>]

\* update_descriptors: the YUV pass reads the end of the chain, or the input.
WriterYuvSet(camera_chain) ==
  IF camera_chain THEN <<{"rgb0"}, {"image"}>> ELSE <<{"input"}, {"image"}>>

RcdBarrier ==
  ShaderBarrier(Scope(CameraRgb \cup RcdScratch, {"W"}, {"R", "W"}))

WriterRawChain ==
  <<Dispatch(CalibrateRaw, WriterSets.calibration),
    ShaderBarrier(Scope({"calibrated"}, {"W"}, {"R"}))>>
  \o [k \in 1..16 |-> IF k % 2 = 1 THEN RcdDispatch(k \div 2, WriterSets.rcd)
                                   ELSE RcdBarrier]

WriterColor(raw_chain) ==
  <<Fill("status"),
    Barrier({"transfer"}, {"compute"}, Scope({"status"}, {"TW"}, {"R", "W"})),
    Dispatch(CameraToDwg, IF raw_chain THEN WriterSets.raw_color
                                       ELSE WriterSets.color)>>

WriterSharpen ==
  <<ShaderBarrier(Scope({"rgb0"}, {"W"}, {"R"})),
    Dispatch(SharpenTargetLinear, WriterSets.sharpen)>>

\* The DI pass writes the buffers the sharpening pass read.
WriterDi ==
  <<ShaderBarrier(Scope({"rgb1"}, {"W"}, {"R"})
                    \cup Scope({"rgb0"}, {"R", "W"}, {"W"})),
    Dispatch(DavinciIntermediate, WriterSets.di)>>

WriterYuv(camera_chain) ==
  <<ShaderBarrier(Scope({"image"}, {"encoder"}, {"W"})),
    Dispatch(RgbToYuv422, WriterYuvSet(camera_chain))>>

WriterReady ==
  <<Barrier({"compute"}, {"compute", "host"},
            Scope({"rgb0"}, {"W"}, {"R"}) \cup Scope({"status"}, {"W"}, {"HR"}))>>

WriterChain(raw_chain) ==
  WriterColor(raw_chain) \o WriterSharpen \o WriterDi \o WriterReady
    \o WriterYuv(TRUE)

\* Faulty: the RAW timestamps are read for every Camera RGB chain.
WriterReadsRaw(camera_chain, raw_chain) ==
  {"yuv"} \cup (IF camera_chain THEN {"color", "sharpen", "di", "calibration",
                                     "rcd"} ELSE {})

\* What recycle_slot reads, by the chain the slot's last submission recorded.
WriterReads(camera_chain, raw_chain) ==
  {"yuv"} \cup (IF camera_chain THEN {"color", "sharpen", "di"} ELSE {})
          \cup (IF raw_chain THEN {"calibration", "rcd"} ELSE {})

\* pack, pack_camera_rgb and pack_raw_mosaic.
WriterPack(camera_chain, raw_chain) ==
  LET stamps == {"yuv"}
                  \cup (IF camera_chain THEN {"color", "sharpen", "di"} ELSE {})
                  \cup (IF raw_chain THEN {"calibration", "rcd"} ELSE {})
  IN  [stream |-> (IF raw_chain THEN WriterRawChain ELSE << >>)
                    \o (IF camera_chain THEN WriterChain(raw_chain)
                                        ELSE WriterYuv(FALSE)),
       uploads |-> IF raw_chain THEN {"raw"} ELSE {"input"},
       results |-> {"image"} \cup (IF camera_chain THEN {"status"} ELSE {}),
       resets |-> stamps, stamps |-> stamps,
       reads |-> WriterReads(camera_chain, raw_chain)]

-----------------------------------------------------------------------------
(* VulkanCameraPipelineResources.                                          *)

CameraLut ==
  [stream |-> <<Copy("staging", "lut"),
                Barrier({"transfer"}, {"compute"}, Scope({"lut"}, {"TW"}, {"R"}))>>,
   uploads |-> {"staging"}, results |-> {"lut"},
   resets |-> {}, stamps |-> {}, reads |-> {}]

CameraSets ==
  [color |-> <<{"input"}, {"rgb0"}>>,
   sharpen |-> <<{"rgb0"}, {"rgb1"}>>,
   di |-> <<{"rgb1"}, {"rgb0"}, {"lut"}, {"status"}>>]

\* A result is copied to host memory, between barriers.
ReadBack(from, stage, kind) ==
  <<Barrier({stage}, {"transfer"}, Scope({from}, {kind}, {"TR"})),
    Copy(from, "readback"),
    Barrier({"transfer"}, {"host"}, Scope({"readback"}, {"TW"}, {"HR"}))>>

CameraColor ==
  [stream |-> <<Dispatch(CameraToDwg, CameraSets.color)>>
                \o ReadBack("rgb0", "compute", "W"),
   uploads |-> {"input"}, results |-> {"readback"},
   resets |-> {"color"}, stamps |-> {"color"}, reads |-> {"color"}]

CameraStatusReset ==
  <<Fill("status"),
    Barrier({"transfer"}, {"compute"}, Scope({"status"}, {"TW"}, {"R", "W"}))>>

CameraSharpen ==
  <<Dispatch(CameraToDwg, CameraSets.color),
    ShaderBarrier(Scope({"rgb0"}, {"W"}, {"R"})),
    Dispatch(SharpenTargetLinear, CameraSets.sharpen)>>

CameraDi ==
  <<ShaderBarrier(Scope({"rgb1"}, {"W"}, {"R"})
                    \cup Scope({"rgb0"}, {"R", "W"}, {"W"})),
    Dispatch(DavinciIntermediate, CameraSets.di)>>

CameraStatusReady ==
  <<Barrier({"compute"}, {"host"}, Scope({"status"}, {"W"}, {"HR"}))>>

\* The output is read back from the last set of buffers written.
CameraChain(run_di) ==
  LET out == ReadBack(IF run_di THEN "rgb0" ELSE "rgb1", "compute", "W")
      stamps == {"color", "sharpen"} \cup (IF run_di THEN {"di"} ELSE {})
  IN  [stream |-> IF run_di
                  THEN CameraStatusReset \o CameraSharpen \o CameraDi
                         \o <<out[1]>> \o CameraStatusReady \o Tail(out)
                  ELSE CameraSharpen \o out,
       uploads |-> {"input"},
       results |-> {"readback"} \cup (IF run_di THEN {"status"} ELSE {}),
       resets |-> stamps, stamps |-> stamps, reads |-> stamps]

CameraRoundTrip ==
  [stream |-> <<Copy("input", "rgb0")>> \o ReadBack("rgb0", "transfer", "TW"),
   uploads |-> {"input"}, results |-> {"readback"},
   resets |-> {}, stamps |-> {}, reads |-> {}]

-----------------------------------------------------------------------------
(* VulkanRawPipelineResources.                                             *)

RawCalibrationSet == <<{"raw"}, {"calibrated"}>>
RawRcdSet ==
  <<{"calibrated"}, {"scratch0"}, {"camera0"}, {"camera1"}, {"camera2"},
    {"scratch1"}, {"scratch2"}, {"scratch3"}, {"scratch4"}>>

RawRoundTrip ==
  [stream |-> <<Copy("raw", "readback")>>,
   uploads |-> {"raw"}, results |-> {"readback"},
   resets |-> {}, stamps |-> {}, reads |-> {}]

RawCalibrate ==
  [stream |-> <<Dispatch(CalibrateRaw, RawCalibrationSet),
                Barrier({"compute"}, {"transfer"}, Scope({"calibrated"}, {"W"}, {"TR"})),
                Copy("calibrated", "readback")>>,
   uploads |-> {"raw"}, results |-> {"readback"},
   resets |-> {"calibration"}, stamps |-> {"calibration"},
   reads |-> {"calibration"}]

RawRcd ==
  [k \in 1..16 |-> IF k % 2 = 1 THEN RcdDispatch(k \div 2, RawRcdSet)
                                ELSE RcdBarrier]

RawDemosaic ==
  [stream |-> <<Dispatch(CalibrateRaw, RawCalibrationSet),
                ShaderBarrier(Scope({"calibrated"}, {"W"}, {"R"}))>>
                \o RawRcd
                \o <<Barrier({"compute"}, {"transfer"}, Scope(CameraRgb, {"W"}, {"TR"})),
                     Work("transfer", CameraRgb, {"readback"})>>,
   uploads |-> {"raw"}, results |-> {"readback"},
   resets |-> {"calibration", "rcd"}, stamps |-> {"calibration", "rcd"},
   reads |-> {"calibration", "rcd"}]

-----------------------------------------------------------------------------
(* VulkanRgbToYuv422: one dispatch between host-visible buffers.           *)

PackerPack ==
  [stream |-> <<Dispatch(RgbToYuv422, <<{"input"}, {"readback"}>>)>>,
   uploads |-> {"input"}, results |-> {"readback"},
   resets |-> {"yuv"}, stamps |-> {"yuv"}, reads |-> {"yuv"}]

-----------------------------------------------------------------------------
(* All operations, by class.  "lut" is the constructor's.                  *)

\* The last command of the stream before command k that writes buffer b, or
\* 0 when only the host or the constructor has.
LastWriter(stream, k, b) ==
  LET writers == {i \in 1..(k - 1) : b \in stream[i].writes}
  IN  IF writers = {} THEN 0 ELSE CHOOSE i \in writers : \A j \in writers : j <= i

\* finds[k]: with each buffer command k reads, the command whose output it is
\* to find there; the host, reading the results, comes last.
WithFinds(o) ==
  LET n == Len(o.stream)
      reads(k) == IF k <= n THEN o.stream[k].reads ELSE o.results
      finds(k) == {<<b, LastWriter(o.stream, k, b)>> : b \in reads(k)}
  IN  [stream |-> o.stream, uploads |-> o.uploads, results |-> o.results,
       resets |-> o.resets, stamps |-> o.stamps, reads |-> o.reads,
       finds |-> << >> \o [k \in 1..(n + 1) |-> finds(k)]]

Operations ==
  [writer |-> [lut |-> WithFinds(WriterLut),
               pack |-> WithFinds(WriterPack(FALSE, FALSE)),
               pack_camera_rgb |-> WithFinds(WriterPack(TRUE, FALSE)),
               pack_raw_mosaic |-> WithFinds(WriterPack(TRUE, TRUE))],
   camera |-> [lut |-> WithFinds(CameraLut),
               camera_to_dwg |-> WithFinds(CameraColor),
               camera_to_dwg_sharpen |-> WithFinds(CameraChain(FALSE)),
               camera_to_dwg_sharpen_di |-> WithFinds(CameraChain(TRUE)),
               round_trip |-> WithFinds(CameraRoundTrip)],
   raw |-> [round_trip |-> WithFinds(RawRoundTrip),
            calibrate |-> WithFinds(RawCalibrate),
            demosaic_rcd |-> WithFinds(RawDemosaic)],
   packer |-> [pack |-> WithFinds(PackerPack)]]

\* A barrier orders what is before it, of the stages in src, before what is
\* after it, of the stages in dst.
Ordered(before, after) ==
  IF after.stage = "barrier"
  THEN before.stage \in after.src \/ before.dst \cap after.src # {}
  ELSE after.stage \in before.dst
=============================================================================
