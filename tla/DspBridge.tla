------------------------------ MODULE DspBridge ------------------------------
(***************************************************************************)
(* The user side of the DSP bridge driver (dsp_bridge.c) and the memory    *)
(* shared with the DSP (dmm_buffer.h), as operators on what the driver and *)
(* the process hold for one client:                                        *)
(*   live   what has been acquired and not released;                       *)
(*   node   how far the client's node has got;                             *)
(*   twice  what was released without being held.                          *)
(* A call is an ioctl that succeeds or fails.  An operator whose call may  *)
(* fail takes the outcome as an argument: ok, or the name f of the step    *)
(* that fails inside it.                                                   *)
(***************************************************************************)

Nothing == [live |-> {}, node |-> "none", twice |-> {}]

Acquire(d, r) == [d EXCEPT !.live = @ \cup {r}]
Release(d, r) == IF r \in d.live THEN [d EXCEPT !.live = @ \ {r}]
                                 ELSE [d EXCEPT !.twice = @ \cup {r}]
AcquireIf(ok, d, r) == IF ok THEN Acquire(d, r) ELSE d

AcquireAll(d, rs) == [d EXCEPT !.live = @ \cup rs]
Forget(d, rs)     == [d EXCEPT !.live = @ \ rs]
AtStage(d, s)     == [d EXCEPT !.node = s]

-----------------------------------------------------------------------------
(* The processor. *)

dsp_open(d, ok)            == AcquireIf(ok, d, <<"driver", "fd">>)
dsp_close(d)               == Release(d, <<"driver", "fd">>)
dsp_attach(d, ok)          == AcquireIf(ok, d, <<"driver", "proc">>)
dsp_detach(d)              == Release(d, <<"driver", "proc">>)

(* A client is told of the node's messages and of the DSP's two faults by  *)
(* registering three notifications; the driver drops them with the node    *)
(* and the processor.                                                      *)
Events == {"NODEMESSAGEREADY", "MMUFAULT", "SYSERROR"}

dsp_register_notify(d, e)      == Acquire(d, <<"notify", e>>)
dsp_node_register_notify(d, e) == Acquire(d, <<"notify", e>>)

-----------------------------------------------------------------------------
(* Nodes.  build says which of the two compile-time options is on: heap    *)
(* (ALLOCATE_HEAP) allocates the node's heap in the process, sm            *)
(* (ALLOCATE_SM) maps the shared segment of its messages.                  *)

NodeStuff == {<<"node", "node">>, <<"node", "heap">>, <<"node", "segment">>}

(* A node nobody points to any more can never be freed: it is kept apart   *)
(* from the node that the client creates next.                             *)
LostStuff == {<<"lost", r[2]>> : r \in NodeStuff}
Lose(d) == [d EXCEPT !.live =
              (@ \ NodeStuff) \cup {r \in LostStuff : <<"node", r[2]>> \in @}]

(* allocate_segments fails before the mapping, or after it: then the base  *)
(* it unmaps has been overwritten with NULL, and the mapping stays.        *)
allocate_segments(d, f) ==
  CASE f \in {"cmm", "attr"} -> [ok |-> FALSE, d |-> d]
    [] f = "allocbuf"        -> [ok |-> FALSE, d |-> Acquire(d, <<"lost", "segment">>)]
    [] OTHER                 -> [ok |-> TRUE,  d |-> Acquire(d, <<"node", "segment">>)]

dsp_node_delete(d) == AtStage(Release(d, <<"node", "node">>), "none")

FreeHeap(d) == Forget(d, {<<"node", "heap">>})

(* The steps at which dsp_node_allocate can fail in a build. *)
AllocateFaults(build, attrs) ==
  {"ioctl"} \cup (IF build.heap /\ attrs THEN {"props", "memalign"} ELSE {})
            \cup (IF build.sm THEN {"cmm", "attr", "allocbuf"} ELSE {})

dsp_node_allocate(d, build, attrs, f) ==
  LET heap  == AcquireIf(build.heap /\ attrs, d, <<"node", "heap">>)
      alloc == AtStage(Acquire(heap, <<"node", "node">>), "allocated")
      segs  == allocate_segments(alloc, f)
  IN  CASE f \in {"props", "memalign", "ioctl"} -> [ok |-> FALSE, d |-> d]
        [] build.sm /\ ~segs.ok ->
             [ok |-> FALSE, d |-> FreeHeap(dsp_node_delete(segs.d))]
        [] OTHER -> [ok |-> TRUE, d |-> IF build.sm THEN segs.d ELSE alloc]

dsp_node_create(d)    == AtStage(d, "created")
dsp_node_run(d)       == AtStage(d, "running")
dsp_node_terminate(d) == AtStage(d, "terminated")

(* munmap, NODE_DELETE and the two frees: the notifications go with it. *)
dsp_node_free(d) ==
  Forget(dsp_node_delete(d), NodeStuff \cup {<<"notify", e>> : e \in Events})

-----------------------------------------------------------------------------
(* DMM buffers.  own is the memory the buffer allocated, data the memory   *)
(* it stands for, reserve and map whether its two pointers are set, copy   *)
(* whether data is not the caller's.  The driver's ranges of buffer n are  *)
(* <<"reserve", n>> and <<"map", n>>.                                      *)

dmm_buffer_new == [data |-> "null", own |-> FALSE, reserve |-> FALSE,
                   map |-> FALSE, copy |-> FALSE]

dsp_reserve(d, n)   == Acquire(d, <<"reserve", n>>)
dsp_unreserve(d, n) == Release(d, <<"reserve", n>>)
dsp_map(d, n)       == Acquire(d, <<"map", n>>)
dsp_unmap(d, n)     == Release(d, <<"map", n>>)

Drop(d, b, n) ==
  LET unmapped == IF b.map THEN dsp_unmap(d, n) ELSE d
  IN  IF b.reserve THEN dsp_unreserve(unmapped, n) ELSE unmapped

dmm_buffer_free(d, b, n) == Drop(d, b, n)

(* Neither call's result is looked at.  A call that fails leaves its       *)
(* pointer as it was, so that a pointer of an earlier mapping stays set    *)
(* although the driver holds nothing for it any more.  Without a reserved  *)
(* range the mapping fails too.                                            *)
dmm_buffer_map(d, b, n, f) ==
  LET dropped  == Drop(d, b, n)
      reserved == IF f = "reserve" THEN dropped ELSE dsp_reserve(dropped, n)
  IN  [d |-> IF f = "none" THEN dsp_map(reserved, n) ELSE reserved,
       b |-> [b EXCEPT !.reserve = @ \/ f # "reserve", !.map = @ \/ f = "none"]]

dmm_buffer_unmap(d, b, n) ==
  [d |-> Drop(d, b, n), b |-> [b EXCEPT !.reserve = FALSE, !.map = FALSE]]

(* Who may touch a buffer's memory: begin hands it to the device, end      *)
(* takes it back.  Once a begin has failed neither does anything.          *)
dmm_buffer_begin(owner, ok) ==
  IF owner = "lost" THEN owner ELSE IF ok THEN "device" ELSE "lost"
dmm_buffer_end(owner) == IF owner = "lost" THEN owner ELSE "cpu"

dmm_buffer_allocate(b) == [b EXCEPT !.own = TRUE, !.data = "own"]
dmm_buffer_use(b)      == [b EXCEPT !.data = "caller"]

(* gstdsp_map_buffer: an aligned buffer is used where it is and keeps a    *)
(* reference; otherwise memory is allocated and the frame is copied.       *)
gstdsp_map_buffer(b, aligned) ==
  IF aligned THEN dmm_buffer_use(b)
             ELSE [dmm_buffer_allocate(b) EXCEPT !.copy = TRUE]
=============================================================================
