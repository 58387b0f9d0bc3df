------------------------------ MODULE GpuReplay ------------------------------
(***************************************************************************)
(* The command streams of the GPU replay rig (gen_stream.py) and the       *)
(* ordering-table walk they share with the static analysis (ot_trace.py).  *)
(*                                                                         *)
(* The game's display list is a chain of nodes in RAM: a tag with the      *)
(* number of words and the address of the next node, then the words.  A    *)
(* builder walks it and lays out a stream of timed words; the testbench    *)
(* pushes them into the GPU's command FIFO at their times and never looks  *)
(* whether the FIFO is full.                                               *)
(*                                                                         *)
(* A packet stands for its words: how many, on which port, and the time    *)
(* the stream leaves after the last of them.  One action is one node of a  *)
(* walk, the layout of a stream, or one packet pushed.                     *)
(***************************************************************************)
EXTENDS Integers, SequencesExt, Lists

CONSTANTS
  Nodes,      \* node addresses inside the RAM window
  Outside,    \* an address outside it, the game's terminator
  NodeWords,  \* nwords of each node's tag
  HeadRects, HeadQuads,  \* the two ordering-table heads
  Band,       \* the band-row addresses build_garbleband looks for, in its order
  Picks,      \* addresses a user may give as pick_ot
  MaxNodes,   \* _walk_ot's maxn
  QuadCounts  \* bound: the numbers a user may give clutrace as panel N and neigh N

ASSUME NodeAssumption ==
  /\ Nodes \subseteq Nat \ {0} /\ Outside \notin Nodes
  /\ NodeWords \in [Nodes -> 0..255]
  /\ {HeadRects, HeadQuads} \subseteq Nodes /\ Picks \subseteq Nodes
  /\ MaxNodes \in Nat \ {0} /\ QuadCounts \subseteq Nat

(* The band-row addresses are all different. *)
ASSUME BandAssumption ==
  Band \in Seq(Nat) /\ \A i, j \in 1..Len(Band) : Band[i] = Band[j] => i = j

VARIABLES
  next,       \* the next-address of each node's tag
  job,        \* the command line: [build, heads, pick, option, gap, panel, neigh]
  job_stage,      \* "none", "walk", "build", "replay", "done"
  addr,       \* of the walk under way
  seen, nodes,
  chains,     \* walks that have ended
  stream,     \* packets not pushed yet
  backlog,    \* words the GPU may still hold: all since it last had time to drain
  drawn,      \* nodes pushed, in order
  most        \* the most words it may ever have held

replayVars == <<next, job, job_stage, addr, seen, nodes, chains, stream, backlog, drawn, most>>

-----------------------------------------------------------------------------
(* No list has a node at address 0, the kernel's exception vectors. *)
NoNode == 0

(* What a command line without clutrace's options leaves at their defaults. *)
JobOf(build, heads, pick, option) ==
  [build |-> build, heads |-> heads, pick |-> pick, option |-> option,
   gap |-> "drain", panel |-> 4, neigh |-> 1]

NoJob == JobOf("none", <<>>, NoNode, "none")

(* The streams that need no RAM, and those that walk it.  clutrace's user     *)
(* says how many quads of each kind there are, whether they alternate, and    *)
(* the gap after each: "drain N" with a small N leaves the GPU no time.       *)
Jobs ==
  {JobOf(b, <<>>, NoNode, "none") : b \in {"demo", "texquad", "texrect", "bgpanel"}}
  \cup {JobOf("fullframe", h, NoNode, "none") :
          h \in {<<HeadRects, HeadQuads>>, <<HeadRects>>, <<HeadQuads>>}}
  \cup {JobOf("garbleband", <<HeadQuads>>, p, o) : p \in Picks, o \in {"none", "neighbors"}}
  \cup {JobOf("wrongclut", <<HeadQuads>>, p, "none") : p \in Picks}
  \cup [build : {"clutrace"}, heads : {<<>>}, pick : {NoNode}, option : {"none", "alternate"},
        gap : {"drain", "step"}, panel : QuadCounts, neigh : QuadCounts]

ReplayIdle ==
  /\ next = [n \in Nodes |-> Outside] /\ job = NoJob /\ job_stage = "none"
  /\ addr = Outside /\ seen = {} /\ nodes = <<>> /\ chains = <<>>
  /\ stream = <<>> /\ backlog = 0 /\ drawn = <<>> /\ most = 0

ReplayInit ==
  /\ job \in Jobs
  /\ IF job.heads = <<>> THEN next = [n \in Nodes |-> Outside]
     ELSE next \in [Nodes -> Nodes \cup {Outside}]
  /\ job_stage = "walk" /\ addr = Outside /\ seen = {} /\ nodes = <<>> /\ chains = <<>>
  /\ stream = <<>> /\ backlog = 0 /\ drawn = <<>> /\ most = 0

-----------------------------------------------------------------------------
WalkIgnoresLoops == Len(nodes) < MaxNodes /\ addr \in Nodes

(* The walk.  It ends at an address outside RAM, at a node seen before, or    *)
(* after maxn nodes.                                                         *)
WalkGoesOn == Len(nodes) < MaxNodes /\ addr \in Nodes /\ addr \notin seen

StartWalk ==
  /\ job_stage = "walk" /\ nodes = <<>> /\ seen = {} /\ Len(chains) < Len(job.heads)
  /\ addr = Outside
  /\ addr' = job.heads[Len(chains) + 1]
  /\ UNCHANGED <<next, job, job_stage, seen, nodes, chains, stream, backlog, drawn, most>>

WalkNode ==
  /\ job_stage = "walk" /\ WalkGoesOn
  /\ seen' = seen \cup {addr}
  /\ nodes' = Append(nodes, addr)
  /\ addr' = next[addr]
  /\ UNCHANGED <<next, job, job_stage, chains, stream, backlog, drawn, most>>

EndWalk ==
  /\ job_stage = "walk" /\ nodes # <<>> /\ ~WalkGoesOn
  /\ chains' = Append(chains, nodes)
  /\ addr' = Outside /\ seen' = {} /\ nodes' = <<>>
  /\ UNCHANGED <<next, job, job_stage, stream, backlog, drawn, most>>

(* ot_trace.py's walk of the same list: after n steps, the nodes and the      *)
(* address it stands at.                                                     *)
TraceStep(w) ==
  IF w.addr \notin Nodes \/ w.addr \in Range(w.nodes) THEN w
  ELSE [nodes |-> Append(w.nodes, w.addr), addr |-> next[w.addr]]

walk_ot(head) ==
  LET walked[n \in 0..MaxNodes] ==
        IF n = 0 THEN [nodes |-> <<>>, addr |-> head] ELSE TraceStep(walked[n - 1])
  IN  walked[MaxNodes].nodes

-----------------------------------------------------------------------------
(* The packets.  A GP1 word acts at once; a GP0 word goes to the FIFO.  Words *)
(* follow each other at STEP ticks, too close for the GPU to finish drawing   *)
(* in between; "drain" is the long gap after a packet.                       *)
Packet(port, words, gap, node) == [port |-> port, words |-> words, gap |-> gap, node |-> node]

GP1(words) == <<Packet("GP1", words, "step", NoNode)>>
GP0(words) == <<Packet("GP0", words, "step", NoNode)>>

(* The gap after the last word of the packets so far. *)
Drain(ps) == [ps EXCEPT ![Len(ps)].gap = "drain"]

(* Reset, mode, enable, DMA direction, start and the two ranges. *)
DisplayOn == GP1(7)

draw_mode == GP0(1)
tex_window == GP0(1)
draw_area == GP0(2)
draw_offset == GP0(1)
fill_vram == GP0(3)
flat_rect == GP0(3)
cpu2vram(pixels) == GP0(3 + (pixels + 1) \div 2)
quad_tex_4pt == GP0(9)
rect_tex == GP0(4)

display_setup_320x240 == DisplayOn \o draw_mode \o draw_area \o draw_offset

PanelSetup == DisplayOn \o draw_area \o draw_offset \o tex_window

UnpacedPacket(n) == <<Packet("GP0", NodeWords[n], "step", n)>>

(* A node of the list, verbatim, and time for the GPU to draw it.  A node     *)
(* without words still moves the clock.                                      *)
NodePacket(n) == <<Packet("GP0", NodeWords[n], "drain", n)>>

build_demo == display_setup_320x240 \o fill_vram \o flat_rect \o flat_rect \o flat_rect

build_texquad == display_setup_320x240 \o fill_vram \o draw_mode \o tex_window \o quad_tex_4pt

build_texrect == display_setup_320x240 \o fill_vram \o draw_mode \o tex_window \o rect_tex

build_bgpanel573 ==
  PanelSetup \o FlattenSeq([i \in 1..4 |-> Drain(draw_mode \o rect_tex)])

build_fullframe573 ==
  PanelSetup \o FlattenSeq([i \in 1..Len(chains) |->
                  FlattenSeq([k \in 1..Len(chains[i]) |-> NodePacket(chains[i][k])])])

(* The picked node comes first unless it is one of the band. *)
Targets ==
  LET band == IF job.option # "neighbors" THEN <<>>
              ELSE Kept(Band, Range(chains[1]))
  IN  IF job.pick \notin Range(band) /\ job.pick \in Range(chains[1])
      THEN <<job.pick>> \o band ELSE band

build_garbleband ==
  PanelSetup \o fill_vram
    \o FlattenSeq([i \in 1..Len(Targets) |-> NodePacket(Targets[i])])
    \o draw_mode \o tex_window \o rect_tex

build_wrongclut == PanelSetup \o fill_vram \o cpu2vram(16) \o NodePacket(job.pick)

(* The panel quads behind the neighbour quads, or each behind one of its own. *)
ClutQuads == IF job.option = "alternate" THEN 2 * job.panel ELSE job.neigh + job.panel

ClutQuad == IF job.gap = "drain" THEN Drain(quad_tex_4pt) ELSE quad_tex_4pt

build_clutrace ==
  display_setup_320x240 \o fill_vram \o draw_mode \o tex_window
    \o FlattenSeq([i \in 1..ClutQuads |-> ClutQuad])

Built ==
  CASE job.build = "demo"       -> build_demo
    [] job.build = "texquad"    -> build_texquad
    [] job.build = "texrect"    -> build_texrect
    [] job.build = "bgpanel"    -> build_bgpanel573
    [] job.build = "fullframe"  -> build_fullframe573
    [] job.build = "garbleband" -> build_garbleband
    [] job.build = "wrongclut"  -> build_wrongclut
    [] job.build = "clutrace"   -> build_clutrace

(* wrongclut has nothing to redirect when the picked node is not in the list  *)
(* or too short to hold a CLUT: it ends without a stream.                    *)
NoPick ==
  job.build = "wrongclut" /\ (job.pick \notin Range(chains[1]) \/ NodeWords[job.pick] < 3)

Build ==
  /\ job_stage = "walk" /\ addr = Outside /\ nodes = <<>> /\ Len(chains) = Len(job.heads)
  /\ IF NoPick THEN job_stage' = "done" /\ stream' = <<>>
     ELSE job_stage' = "replay" /\ stream' = Built
  /\ UNCHANGED <<next, job, addr, seen, nodes, chains, backlog, drawn, most>>

-----------------------------------------------------------------------------
(* The testbench pushes a packet; the GPU may be busy with an earlier one     *)
(* until the next long gap.                                                  *)
Push ==
  /\ job_stage = "replay" /\ stream # <<>>
  /\ LET p      == Head(stream)
         queued == backlog + (IF p.port = "GP0" THEN p.words ELSE 0)
     IN  /\ backlog' = IF p.gap = "drain" THEN 0 ELSE queued
         /\ most' = IF queued > most THEN queued ELSE most
         /\ drawn' = IF p.node = NoNode THEN drawn ELSE Append(drawn, p.node)
  /\ stream' = Tail(stream)
  /\ UNCHANGED <<next, job, job_stage, addr, seen, nodes, chains>>

EndReplay ==
  /\ job_stage = "replay" /\ stream = <<>>
  /\ job_stage' = "done"
  /\ UNCHANGED <<next, job, addr, seen, nodes, chains, stream, backlog, drawn, most>>

ReplayNext == StartWalk \/ WalkNode \/ EndWalk \/ Build \/ Push \/ EndReplay

-----------------------------------------------------------------------------
(* A stream gives the GPU time to catch up after every node or quad, unless   *)
(* its user asked clutrace for a tight one.                                  *)
Paced == ~(job.build = "clutrace" /\ job.gap = "step")

(* The words of the largest node. *)
Widest == CHOOSE w \in 0..255 : (\E n \in Nodes : NodeWords[n] = w) /\ \A n \in Nodes : NodeWords[n] <= w

(* Room for the longest setup, wrongclut's with its palette, and one node. *)
Room == 18 + Widest

(* A FIFO with room for a stream's setup and one node never has a word of a   *)
(* paced stream pushed at it when it is full, however many nodes and chains   *)
(* the list has: what the GPU has not drawn is never more than one node and   *)
(* what came before the first.  The testbench does not look whether the FIFO  *)
(* is full, and a stream whose need grows with the list loses words there.    *)
NeedIsOneNode == Paced => most <= Room

(* What the static analysis and the generator take from one RAM is one list:  *)
(* each node is the one the node before names, none comes twice, and the walk *)
(* stopped for a reason.                                                     *)
OneList(c, head) ==
  /\ c[1] = head
  /\ \A i \in 1..Len(c) - 1 : c[i + 1] = next[c[i]]
  /\ \A i, j \in 1..Len(c) : c[i] = c[j] => i = j
  /\ Len(c) = MaxNodes \/ next[c[Len(c)]] \in {Outside} \cup Range(c)

(* The replayed scene is the game's: both walks give the same list, and a     *)
(* full-frame replay draws each of its nodes once per chain, in list order.   *)
(* The band replay draws the nodes it looks for that are in the list, once.  *)
DrawsTheList ==
  /\ \A i \in 1..Len(chains) :
       OneList(chains[i], job.heads[i]) /\ walk_ot(job.heads[i]) = chains[i]
  /\ job_stage = "done" /\ job.build = "fullframe" => drawn = FlattenSeq(chains)
  /\ job_stage = "done" /\ job.build = "garbleband" =>
       /\ \A i, j \in 1..Len(drawn) : drawn[i] = drawn[j] => i = j
       /\ Range(drawn) = Range(chains[1]) \cap
            ({job.pick} \cup (IF job.option = "neighbors" THEN Range(Band) ELSE {}))
  /\ job_stage = "done" /\ job.build = "wrongclut" /\ drawn # <<>> => drawn = <<job.pick>>
=============================================================================
