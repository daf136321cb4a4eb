---------------------------- MODULE MCEdgeFabric -----------------------------
(* Traffic for TLC: a publisher on h_1_1, GOOSE and ordinary traffic of the    *)
(* other hosts, and what the kernel itself sends through a TAP.                *)
EXTENDS EdgeFabric

GroupAddress == "01:0c:cd:01:00:00"
Groups == {GroupAddress}

\* The publisher uses the address of its host, which its other traffic uses too: a
\* source address of its own, as that of goose_sender.py, interferes with nothing.
Goose(h) == [at |-> HostPort[h], src |-> h, dst |-> GroupAddress, goose |-> TRUE]
Unicast(h, k) == [at |-> HostPort[h], src |-> h, dst |-> k, goose |-> FALSE]

\* What the kernel sends of its own accord through a TAP device.
KernelFrame(e, p) == [at |-> <<e, p>>, src |-> "tap", dst |-> GroupAddress, goose |-> FALSE]

\* GOOSE of both edges, unicast traffic within an edge and across the core, and a
\* frame of the kernel.
EdgeTraffic ==
    {Goose("h_1_1"), Goose("h_2_2"), Unicast("h_1_1", "h_2_2"),
     Unicast("h_1_2", "h_1_1"), KernelFrame("s3", TapIn)}
==============================================================================
