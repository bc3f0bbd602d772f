---------------------------- MODULE KernelEvents ----------------------------
(***************************************************************************)
(* The kernel half of the agent: the sys_enter tracepoint program of        *)
(* agent/ebpf/deepkernel.bpf.c, running on every CPU, and the BPF ring      *)
(* buffer that carries its events to the agent process.                     *)
(*                                                                         *)
(* The program first reserves a slot of the ring and only then reads the    *)
(* clock, so the order of the slots and the order of their timestamps may   *)
(* differ between CPUs.  A slot that is reserved and not yet submitted      *)
(* blocks the consumer.  When the ring is full the event is dropped without *)
(* a trace.                                                                *)
(***************************************************************************)
EXTENDS Naturals, Sequences

CONSTANTS Cpus,          \* the CPUs that run the tracepoint program
          Containers,    \* the containers whose processes make system calls
          RingCapacity,  \* slots of the ring (256 KiB in the source)
          StartClock,    \* the monotonic clock when the agent starts
          MaxClock,      \* bound: the clock stops here
          MaxEvents      \* bound: slots reserved in one behaviour

ASSUME KernelAssumption ==
    /\ RingCapacity \in Nat \ {0}
    /\ StartClock \in Nat \ {0}       \* 0 means "unset" to the agent
    /\ MaxClock \in Nat
    /\ StartClock <= MaxClock
    /\ MaxEvents \in Nat

VARIABLES clock,     \* bpf_ktime_get_ns() and steady_clock: one monotonic clock
          ring,      \* the slots between the consumer and the producer position
          reserved   \* how many slots were reserved so far (bounds the model)

kernelVars == <<clock, ring, reserved>>

Ts == 0 .. MaxClock

Slot == [cpu : Cpus, container : Containers, ts : Ts, ready : BOOLEAN]

KernelTypeOK ==
    /\ clock \in Ts \ {0}
    /\ ring \in Seq(Slot)
    /\ reserved \in 0 .. MaxEvents

KernelInit ==
    /\ clock = StartClock
    /\ ring = <<>>
    /\ reserved = 0

-----------------------------------------------------------------------------

Tick ==
    /\ clock < MaxClock
    /\ clock' = clock + 1
    /\ UNCHANGED <<ring, reserved>>

Reserving(p) == \E i \in DOMAIN ring : ring[i].cpu = p /\ ~ring[i].ready

\* A process of container c enters a system call on CPU p.  The program owns
\* its CPU until it has submitted, so a CPU has at most one open slot.  With
\* the ring full bpf_ringbuf_reserve fails and the handler returns at once.
ReserveSlot(p, c) ==
    /\ reserved < MaxEvents
    /\ ~Reserving(p)
    /\ reserved' = reserved + 1
    /\ ring' = IF Len(ring) < RingCapacity
                 THEN Append(ring, [cpu |-> p, container |-> c,
                                    ts |-> 0, ready |-> FALSE])
                 ELSE ring
    /\ UNCHANGED clock

\* The program stamps its slot, fills it in and submits it.
SubmitSlot(p) ==
    /\ Reserving(p)
    /\ ring' = [i \in DOMAIN ring |->
                  IF ring[i].cpu = p /\ ~ring[i].ready
                    THEN [ring[i] EXCEPT !.ts = clock, !.ready = TRUE]
                    ELSE ring[i]]
    /\ UNCHANGED <<clock, reserved>>

KernelNext ==
    \/ Tick
    \/ \E p \in Cpus : SubmitSlot(p) \/ \E c \in Containers : ReserveSlot(p, c)

-----------------------------------------------------------------------------

\* ring_buffer__poll consumes the oldest slot, and only once it is submitted.
RingReady == ring # <<>> /\ Head(ring).ready

ConsumeSlot ==
    /\ RingReady
    /\ ring' = Tail(ring)
    /\ UNCHANGED <<clock, reserved>>

=============================================================================
