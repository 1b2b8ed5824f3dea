--------------------------- MODULE KeyPluginProofs ---------------------------
(***************************************************************************)
(* What holds of KeyPlugin for every number of commands, senders, buffers  *)
(* and tries.  The inductive invariant is Inv: types, what a command at a  *)
(* given step has, who may still connect to which socket, and where the    *)
(* keys come from that a command has.                                      *)
(***************************************************************************)
EXTENDS KeyPlugin, TLAPS

\* A sender that was started, and one of which only its end is known
Started == [pc : {"open", "send", "gone"}, token : Tokens, volume : Volumes, tries : 1 .. Tries,
            sent : 0 .. Parts, link : {"none", "open", "reset"}, orphan : BOOLEAN, ok : BOOLEAN]
Bare == [pc : {"gone"}, link : {"none", "open", "reset"}, orphan : BOOLEAN, ok : BOOLEAN,
         sent : 0 .. Parts]

Control ==
    /\ pc \in [Procs -> {"idle", "fork", "bind", "accept", "read", "wait", "use"}]
    /\ job \in [Procs -> Jobs \cup {NoJob}]
    /\ own \in [Procs -> Senders \cup {NoSender}] /\ peer \in [Procs -> Senders \cup {NoSender}]
    /\ got \in [Procs -> Seq(Messages \cup {NoKey})]
    /\ queue \in [Tokens -> Seq(Senders)]
    /\ sender \in [Senders -> Started \cup Bare]
    /\ listening \subseteq Tokens

\* A command with a plugin reads the socket named after it, once; one of a window
\* reads those of its threads, in turn
Plugin(p) == pc[p] # "idle" /\ job[p].mode = "plugin"
Window(p) == pc[p] # "idle" /\ job[p].mode # "plugin"
JobOK(p) ==
    /\ pc[p] = "idle" <=> job[p] = NoJob
    /\ pc[p] \in {"idle", "fork"} => own[p] = NoSender /\ got[p] = <<>>
    /\ pc[p] # "read" => peer[p] = NoSender
    /\ pc[p] \in {"fork", "wait"} => job[p].mode = "plugin"
    /\ Plugin(p) => /\ job[p].tokens = <<p>>
                    /\ pc[p] \in {"fork", "bind", "accept", "read"} => got[p] = <<>>
                    /\ pc[p] \in {"wait", "use"} => Len(got[p]) = 1
    /\ Window(p) => /\ own[p] = NoSender
                    /\ Len(job[p].tokens) \in {1, 2} /\ job[p].tokens \in Seq(Senders)
                    /\ pc[p] \in {"bind", "accept", "read"} => Len(got[p]) < Len(job[p].tokens)
                    /\ Len(got[p]) <= Len(job[p].tokens)

\* A command listens while it waits and reads, and reads from a sender that has
\* connected to its socket
Connected(s, t) ==
    /\ sender[s] \in Started /\ sender[s].token = t /\ t \in Procs \cup {s}
    /\ sender[s].pc # "open" /\ sender[s].link # "none"
Queued(s, t) == \E i \in DOMAIN queue[t] : queue[t][i] = s
ReadOK(p) ==
    /\ Reading(p) => Token(p) \in listening
    /\ pc[p] = "read" => peer[p] \in Senders /\ Connected(peer[p], Token(p))

\* The plugin of a command, and nobody else's, may come to its socket, but for
\* those that outlived a killed command
OwnOK(p) ==
    \A s \in Senders :
      /\ own[p] = s => /\ sender[s] \in Started /\ sender[s].token = p
                       /\ sender[s].volume = job[p].volume /\ ~sender[s].orphan
      /\ /\ sender[s].pc # "gone" \/ Queued(s, p) \/ peer[p] = s
         /\ sender[s].token = p /\ ~sender[s].orphan
         => own[p] = s

\* The threads of a window are there, with the key of its volume, as long as the
\* command has their sockets to read
Reads(p, t) == pc[p] # "idle" /\ \E i \in DOMAIN job[p].tokens : job[p].tokens[i] = t
WindowOK(p) ==
    \A s \in Senders : Window(p) /\ Reads(p, s) =>
      sender[s] \in Started /\ sender[s].token = s /\ sender[s].volume = job[p].volume

\* Whose key it is that a command has
Fair(m) == m # NoKey /\ ~m.orphan
GotOK(p) ==
    /\ pc[p] = "use" /\ own[p] # NoSender => sender[own[p]].pc = "gone"
    /\ Plugin(p) /\ pc[p] = "wait" /\ Fair(got[p][1]) =>
         /\ own[p] # NoSender /\ got[p][1].volume = job[p].volume
         /\ sender[own[p]].pc = "gone" /\ sender[own[p]].link # "none"
         /\ got[p][1].sent = sender[own[p]].sent
    /\ Plugin(p) /\ pc[p] = "use" /\ Fair(got[p][1]) =>
         got[p][1].volume = job[p].volume /\ got[p][1].sent = Parts
    /\ Window(p) => \A i \in DOMAIN got[p] : Fair(got[p][i]) => got[p][i].volume = job[p].volume

CommandOK(p) == JobOK(p) /\ ReadOK(p) /\ OwnOK(p) /\ WindowOK(p) /\ GotOK(p)

-----------------------------------------------------------------------------
\* No two reads are of the same socket
ReadsInv ==
    /\ \A p, q \in Procs, t \in Tokens : Reads(p, t) /\ Reads(q, t) => p = q
    /\ \A p \in Procs : pc[p] # "idle" => \A i, j \in DOMAIN job[p].tokens :
         job[p].tokens[i] = job[p].tokens[j] => i = j

\* Nobody listens but the commands that read
QuietInv == \A t \in listening : \E p \in Procs : Reading(p) /\ Token(p) = t

\* A sender has its socket, and says that all is well when it sent the whole key,
\* or had no connection
SenderGood(s) ==
    /\ sender[s].pc # "gone" => sender[s] \in Started /\ sender[s].token \in Procs \cup {s}
    /\ sender[s].pc = "open" => sender[s].link = "none"
    /\ sender[s].ok => sender[s].pc = "gone" /\ (sender[s].link = "none" \/ sender[s].sent = Parts)
SenderInv == \A s \in Senders : SenderGood(s)

\* Those in a queue have connected to that socket
QueueInv == \A t \in Tokens, s \in Senders : Queued(s, t) => Connected(s, t) /\ t \in listening

Inv == /\ Control /\ \A p \in Procs : CommandOK(p)
       /\ ReadsInv /\ QuietInv /\ SenderInv /\ QueueInv

-----------------------------------------------------------------------------
(* Command lines, messages and records of senders *)

LEMMA JobsTyping ==
    /\ NoJob \notin Jobs /\ NoJob.mode = "none"
    /\ \A j \in Jobs : j.mode \in {"plugin", "file", "add"} /\ j.volume \in Volumes
                       /\ j.mode \in Modes /\ j.tokens \in Seq(Tokens)
    /\ \A m \in Modes, v \in Volumes, ts \in Seq(Tokens) :
         [mode |-> m, volume |-> v, tokens |-> ts] \in Jobs
BY KeyAssumption DEF Jobs, NoJob

LEMMA RecordTyping ==
    \A r \in Started \cup Bare :
      /\ r.pc \in {"open", "send", "gone"} /\ r.sent \in 0 .. Parts
      /\ r.link \in {"none", "open", "reset"} /\ r.orphan \in BOOLEAN /\ r.ok \in BOOLEAN
      /\ r.pc # "gone" => r \in Started
      /\ r \in Started => r.token \in Tokens /\ r.volume \in Volumes /\ r.tries \in 1 .. Tries
BY DEF Started, Bare

\* The records that the end of a command's sockets leaves: the connection is
\* reset, and a plugin whose command is killed is nobody's
Relinked(r) == [r EXCEPT !.link = "reset"]
Orphaned(r) == [r EXCEPT !.orphan = TRUE]
LEMMA ResetTyping ==
    ASSUME NEW r \in Started \cup Bare, NEW u \in {Relinked(r), Orphaned(r)}
    PROVE  /\ u \in Started \cup Bare /\ u.pc = r.pc /\ u.sent = r.sent /\ u.ok = r.ok
           /\ r \in Started => u \in Started /\ u.token = r.token /\ u.volume = r.volume
           /\ u = Relinked(r) => u.link = "reset" /\ u.orphan = r.orphan
           /\ u = Orphaned(r) => u.orphan /\ u.link = r.link
<1>1. CASE r \in Started
  BY <1>1 DEF Started, Relinked, Orphaned
<1>2. CASE r \in Bare /\ r \notin Started
  BY <1>2 DEF Bare, Relinked, Orphaned
<1> QED BY <1>1, <1>2

LEMMA NewTyping ==
    ASSUME NEW t \in Tokens, NEW v \in Volumes
    PROVE  /\ New(t, v) \in Started /\ New(t, v).token = t /\ New(t, v).volume = v
           /\ New(t, v).pc = "open" /\ New(t, v).link = "none"
           /\ ~New(t, v).orphan /\ ~New(t, v).ok
BY KeyAssumption DEF New, Started

-----------------------------------------------------------------------------
(* A step of a command: what it leaves to the others *)

\* The record of a sender but for its connection and its parent
Kept(s) ==
    /\ sender'[s].pc = sender[s].pc /\ sender'[s].sent = sender[s].sent
    /\ sender'[s].ok = sender[s].ok
    /\ sender[s] \in Started => /\ sender'[s] \in Started /\ sender'[s].token = sender[s].token
                                /\ sender'[s].volume = sender[s].volume
    /\ sender'[s].link = "none" <=> sender[s].link = "none"
    /\ sender[s].orphan => sender'[s].orphan

\* A new sender, for the socket of the command or for one of its own
Fresh(s, p) == s \in Free /\ \E v \in Volumes, t \in {s, p} : sender'[s] = New(t, v)

Calm(p) ==
    /\ \A q \in Procs \ {p} :
         /\ pc'[q] = pc[q] /\ job'[q] = job[q] /\ own'[q] = own[q]
         /\ peer'[q] = peer[q] /\ got'[q] = got[q]
    /\ \A s \in Senders : Fresh(s, p) \/ Kept(s)
    /\ \A s \in Senders : sender'[s].orphan => sender[s].orphan \/ s = own[p]
    /\ \A t \in Tokens, s \in Senders : Queued(s, t)' => Queued(s, t) /\ t \in listening'
    /\ \A t \in listening : t \notin listening' => Reads(p, t)
    /\ \A t \in listening' : \/ t \in listening /\ ~(Reading(p) /\ Token(p) = t)
                             \/ Reading(p)' /\ Token(p)' = t
    /\ \A t \in Tokens : Reads(p, t)' => \A q \in Procs \ {p} : ~Reads(q, t)
    /\ pc'[p] # "idle" => \A i, j \in DOMAIN job'[p].tokens :
                            job'[p].tokens[i] = job'[p].tokens[j] => i = j

\* A sender that a command has, reads from or will read from is not a new one
LEMMA FreeIsNobodys ==
    ASSUME NEW s \in Free
    PROVE  /\ s \in Senders /\ sender[s].pc = "gone"
           /\ \A p \in Procs : own[p] # s /\ peer[p] # s /\ ~Reads(p, s)
           /\ \A t \in Tokens : ~Queued(s, t)
BY DEF Free, Reads, Queued

LEMMA TokenTyping ==
    ASSUME Control, NEW p \in Procs, JobOK(p), pc[p] \in {"bind", "accept", "read"}
    PROVE  /\ Token(p) \in Tokens /\ Reads(p, Token(p))
           /\ Plugin(p) => Token(p) = p
           /\ Window(p) => Token(p) \in Senders
<1>1. job[p] \in Jobs /\ job[p].tokens \in Seq(Tokens) /\ got[p] \in Seq(Messages \cup {NoKey})
  BY JobsTyping DEF Control, JobOK
<1>2. CASE Plugin(p)
  <2>1. job[p].tokens = <<p>> /\ got[p] = <<>>
    BY <1>2 DEF JobOK
  <2>2. Token(p) = p /\ 1 \in DOMAIN job[p].tokens
    BY <2>1 DEF Token
  <2> QED BY <1>2, <2>1, <2>2 DEF Reads, Plugin, Window, Tokens
<1>3. CASE ~Plugin(p)
  <2>1. Window(p) /\ Len(got[p]) < Len(job[p].tokens) /\ job[p].tokens \in Seq(Senders)
        /\ Len(got[p]) \in Nat
    BY <1>1, <1>3 DEF JobOK, Plugin, Window
  <2>2. Len(got[p]) + 1 \in DOMAIN job[p].tokens
    BY <1>1, <2>1
  <2> QED BY <1>3, <2>1, <2>2 DEF Token, Reads, Tokens, Window
<1> QED BY <1>2, <1>3

LEMMA OthersKeep ==
    ASSUME Inv, NEW p \in Procs, Calm(p), NEW q \in Procs \ {p}
    PROVE  CommandOK(q)'
<1>1. /\ pc'[q] = pc[q] /\ job'[q] = job[q] /\ own'[q] = own[q]
      /\ peer'[q] = peer[q] /\ got'[q] = got[q]
      /\ JobOK(q) /\ ReadOK(q) /\ OwnOK(q) /\ WindowOK(q) /\ GotOK(q)
  BY DEF Calm, Inv, CommandOK
<1>2. JobOK(q)'
  BY <1>1 DEF JobOK, Plugin, Window
<1>3. ASSUME NEW s \in Senders, ~Fresh(s, p) PROVE Kept(s)
  BY <1>3 DEF Calm
<1>4. ASSUME NEW s \in Senders, own[q] = s \/ peer[q] = s \/ Reads(q, s) PROVE Kept(s)
  BY <1>3, <1>4, FreeIsNobodys DEF Fresh
<1>5. ReadOK(q)'
  <2>1. Token(q)' = Token(q)
    BY <1>1 DEF Token
  <2>2. Reading(q) => Token(q) \in listening'
    <3> SUFFICES ASSUME Reading(q) PROVE Token(q) \in listening'
      OBVIOUS
    <3>1. Reads(q, Token(q)) /\ Token(q) \in Tokens /\ Token(q) \in listening
      BY <1>1, TokenTyping DEF Reading, ReadOK, Inv
    <3>2. ~Reads(p, Token(q))
      BY <3>1 DEF Inv, ReadsInv
    <3> QED BY <3>1, <3>2 DEF Calm
  <2>3. pc[q] = "read" => Connected(peer[q], Token(q))'
    <3> SUFFICES ASSUME pc[q] = "read" PROVE Connected(peer[q], Token(q))'
      OBVIOUS
    <3>1. peer[q] \in Senders /\ Connected(peer[q], Token(q)) /\ Kept(peer[q])
      BY <1>1, <1>4 DEF ReadOK
    <3> QED BY <1>1, <2>1, <3>1 DEF Connected, Kept
  <2> QED BY <1>1, <2>1, <2>2, <2>3 DEF ReadOK, Reading
<1>6. OwnOK(q)'
  <2> SUFFICES ASSUME NEW s \in Senders
               PROVE  /\ own[q] = s => /\ sender'[s] \in Started /\ sender'[s].token = q
                                       /\ sender'[s].volume = job[q].volume /\ ~sender'[s].orphan
                      /\ /\ sender'[s].pc # "gone" \/ Queued(s, q)' \/ peer[q] = s
                         /\ sender'[s].token = q /\ ~sender'[s].orphan
                         => own[q] = s
    BY <1>1 DEF OwnOK
  <2>1. CASE Fresh(s, p)
    <3>1. s # own[q] /\ s # peer[q] /\ ~Queued(s, q)
      BY <2>1, FreeIsNobodys DEF Fresh, Tokens
    <3>2. ~Queued(s, q)'
      BY <3>1 DEF Calm, Tokens
    <3>3. sender'[s].token # q
      BY <2>1, NewTyping, KeyAssumption DEF Fresh, Tokens
    <3> QED BY <3>1, <3>2, <3>3
  <2>2. CASE Kept(s)
    <3>1. own[q] = s => sender[s].token = q /\ s # own[p]
      <4>1. own[p] = s => sender[s].token = p
        BY DEF Inv, CommandOK, OwnOK
      <4> QED BY <1>1, <4>1 DEF OwnOK
    <3>2. own[q] = s => ~sender'[s].orphan
      BY <1>1, <3>1 DEF Calm, OwnOK
    <3>3. Queued(s, q)' => Queued(s, q)
      BY DEF Calm, Tokens
    <3>4. sender[s].pc # "gone" \/ Queued(s, q) \/ peer[q] = s => sender[s] \in Started
      <4>1. peer[q] = s => pc[q] = "read"
        BY <1>1, KeyAssumption DEF JobOK
      <4> QED BY <1>1, <4>1 DEF Inv, SenderInv, SenderGood, QueueInv, Connected, ReadOK, Tokens
    <3> QED BY <1>1, <2>2, <3>1, <3>2, <3>3, <3>4 DEF Kept, OwnOK
  <2> QED BY <1>3, <2>1, <2>2
<1>7. WindowOK(q)'
  <2> SUFFICES ASSUME NEW s \in Senders, Window(q), Reads(q, s)
               PROVE  /\ sender'[s] \in Started /\ sender'[s].token = s
                      /\ sender'[s].volume = job[q].volume
    BY <1>1 DEF WindowOK, Window, Reads
  <2> QED BY <1>1, <1>4 DEF WindowOK, Kept
<1>8. GotOK(q)'
  <2>1. own[q] # NoSender => own[q] \in Senders /\ Kept(own[q])
    BY <1>4 DEF Inv, Control
  <2> QED BY <1>1, <2>1 DEF GotOK, Plugin, Window, Kept
<1> QED BY <1>2, <1>5, <1>6, <1>7, <1>8 DEF CommandOK

LEMMA CalmInv ==
    ASSUME Inv, NEW p \in Procs, Calm(p), Control', CommandOK(p)'
    PROVE  Inv'
<1>1. (\A q \in Procs : CommandOK(q))'
  BY OthersKeep
<1>2. ReadsInv'
  <2>1. \A q \in Procs \ {p}, t \in Tokens : Reads(q, t)' <=> Reads(q, t)
    BY DEF Calm, Reads
  <2>2. (\A q, r \in Procs, t \in Tokens : Reads(q, t) /\ Reads(r, t) => q = r)'
    BY <2>1 DEF Calm, Inv, ReadsInv
  <2> QED BY <2>2 DEF Calm, Inv, ReadsInv
<1>3. QuietInv'
  <2> SUFFICES ASSUME NEW t \in listening' PROVE \E q \in Procs : Reading(q)' /\ Token(q)' = t
    BY DEF QuietInv
  <2>1. CASE t \in listening /\ ~(Reading(p) /\ Token(p) = t)
    <3>1. PICK q \in Procs \ {p} : Reading(q) /\ Token(q) = t
      BY <2>1 DEF Inv, QuietInv
    <3>2. Reading(q)' /\ Token(q)' = t
      BY <3>1 DEF Calm, Reading, Token
    <3> QED BY <3>2
  <2> QED BY <2>1 DEF Calm
<1>4. SenderInv'
  <2> SUFFICES ASSUME NEW s \in Senders PROVE SenderGood(s)'
    BY DEF SenderInv
  <2>1. CASE Fresh(s, p)
    <3>1. PICK v \in Volumes, t \in {s, p} : sender'[s] = New(t, v)
      BY <2>1 DEF Fresh
    <3>2. t \in Tokens /\ t \in Procs \cup {s}
      BY DEF Tokens
    <3> QED BY <3>1, <3>2, NewTyping DEF SenderGood
  <2>2. CASE Kept(s)
    BY <2>2 DEF Kept, Inv, SenderInv, SenderGood
  <2> QED BY <2>1, <2>2 DEF Calm
<1>5. QueueInv'
  <2> SUFFICES ASSUME NEW t \in Tokens, NEW s \in Senders, Queued(s, t)'
               PROVE  Connected(s, t)' /\ t \in listening'
    BY DEF QueueInv
  <2>1. Queued(s, t) /\ t \in listening'
    BY DEF Calm
  <2>2. Kept(s) /\ Connected(s, t)
    BY <2>1, FreeIsNobodys DEF Calm, Fresh, Inv, QueueInv
  <2> QED BY <2>1, <2>2 DEF Kept, Connected
<1> QED BY <1>1, <1>2, <1>3, <1>4, <1>5 DEF Inv

-----------------------------------------------------------------------------
(* The end of a command *)

\* Nobody waits in the queue of a thread id whose command does not read
LEMMA NoQueue ==
    ASSUME Inv, NEW p \in Procs, ~Reading(p), NEW s \in Senders
    PROVE  ~Queued(s, p)
<1> SUFFICES ASSUME Queued(s, p) PROVE FALSE
  OBVIOUS
<1>1. PICK q \in Procs : Reading(q) /\ Token(q) = p
  BY DEF Inv, QueueInv, QuietInv, Tokens
<1>2. JobOK(q) /\ Control
  BY DEF Inv, CommandOK
<1>3. Window(q) => Token(q) \in Senders
  BY <1>1, <1>2, TokenTyping DEF Reading
<1>4. Plugin(q) => Token(q) = q
  BY <1>1, <1>2, TokenTyping DEF Reading
<1> QED BY <1>1, <1>3, <1>4, KeyAssumption DEF Plugin, Window, Reading

LEMMA ExitTyping ==
    ASSUME Control, NEW p \in Procs, Exit(p)
    PROVE  /\ pc' \in [Procs -> {"idle", "fork", "bind", "accept", "read", "wait", "use"}]
           /\ job' \in [Procs -> Jobs \cup {NoJob}]
           /\ own' \in [Procs -> Senders \cup {NoSender}]
           /\ peer' \in [Procs -> Senders \cup {NoSender}]
           /\ got' \in [Procs -> Seq(Messages \cup {NoKey})]
           /\ pc'[p] = "idle" /\ job'[p] = NoJob /\ own'[p] = NoSender
           /\ peer'[p] = NoSender /\ got'[p] = <<>>
           /\ \A q \in Procs \ {p} :
                /\ pc'[q] = pc[q] /\ job'[q] = job[q] /\ own'[q] = own[q]
                /\ peer'[q] = peer[q] /\ got'[q] = got[q]
BY DEF Exit, Goto, Control

\* A command that has ended has nothing, if its plugin has ended or is nobody's
LEMMA IdleOK ==
    ASSUME Inv, NEW p \in Procs, Exit(p),
           \A s \in Senders : Kept(s) /\ ~Queued(s, p)',
           \A s \in Senders : own[p] = s => sender'[s].pc = "gone" \/ sender'[s].orphan
    PROVE  CommandOK(p)'
<1>1. Control /\ OwnOK(p) /\ JobOK(p)
  BY DEF Inv, CommandOK
<1>2. JobOK(p)' /\ ReadOK(p)' /\ WindowOK(p)' /\ GotOK(p)'
  BY <1>1, ExitTyping
     DEF JobOK, ReadOK, Reading, WindowOK, GotOK, Plugin, Window
<1>3. ASSUME NEW s \in Senders, sender'[s].pc # "gone", sender'[s].token = p, ~sender'[s].orphan
      PROVE  FALSE
  <2>1. own[p] = s
    BY <1>1, <1>3 DEF Inv, SenderInv, SenderGood, Kept, OwnOK
  <2> QED BY <1>3, <2>1
<1>4. OwnOK(p)'
  BY <1>1, <1>3, ExitTyping, KeyAssumption DEF OwnOK
<1> QED BY <1>2, <1>4 DEF CommandOK

LEMMA ExitInv ==
    ASSUME Inv, NEW p \in Procs, Exit(p), UNCHANGED <<listening, queue, sender>>,
           ~Reading(p), \A s \in Senders : own[p] = s => sender[s].pc = "gone"
    PROVE  Inv'
<1>1. Control
  BY DEF Inv
<1>2. Control'
  BY <1>1, ExitTyping DEF Control
<1>3. \A s \in Senders, t \in Tokens : Queued(s, t)' <=> Queued(s, t)
  BY DEF Queued
<1>4. \A s \in Senders : Kept(s)
  BY DEF Kept
<1>5. Calm(p)
  <2>1. ~Reading(p)' /\ \A t \in Tokens : ~Reads(p, t)'
    BY <1>1, ExitTyping DEF Reading, Reads
  <2> QED BY <1>1, <1>3, <1>4, <2>1, ExitTyping DEF Calm, Inv, QueueInv
<1>6. CommandOK(p)'
  BY <1>3, <1>4, NoQueue, IdleOK DEF Tokens
<1> QED BY <1>2, <1>5, <1>6, CalmInv

LEMMA FailInv == ASSUME Inv, NEW p \in Procs, Fail(p) PROVE Inv'
<1>1. own[p] = NoSender
  BY DEF Fail, Inv, CommandOK, JobOK, Plugin, Window
<1> QED BY <1>1, ExitInv, KeyAssumption DEF Fail, Reading

LEMMA UseInv == ASSUME Inv, NEW p \in Procs, Use(p) PROVE Inv'
<1>1. own[p] # NoSender => sender[own[p]].pc = "gone"
  BY DEF Use, Inv, CommandOK, GotOK
<1> QED BY <1>1, ExitInv, KeyAssumption DEF Use, Reading

\* The connection it reads from and those in its queue are reset, and those only
LEMMA CutKeeps ==
    ASSUME Inv, NEW p \in Procs, NEW s \in Senders
    PROVE  LET u == Cut(p, s)
           IN  /\ u \in Started \cup Bare /\ u.pc = sender[s].pc /\ u.sent = sender[s].sent
               /\ u.ok = sender[s].ok /\ u.orphan = sender[s].orphan
               /\ sender[s] \in Started => /\ u \in Started /\ u.token = sender[s].token
                                           /\ u.volume = sender[s].volume
               /\ u.link = "none" <=> sender[s].link = "none"
<1>1. CommandOK(p) /\ Control /\ sender[s] \in Started \cup Bare
  BY DEF Inv, Control
<1>2. CASE Cut(p, s) = sender[s]
  BY <1>1, <1>2
<1>3. CASE Cut(p, s) # sender[s]
  <2>1. s = peer[p] \/ (Reading(p) /\ Queued(s, Token(p)))
    BY <1>3 DEF Cut, Queued
  <2>2. s = peer[p] => pc[p] = "read"
    BY <1>1, KeyAssumption DEF CommandOK, JobOK
  <2>3. Token(p) \in Tokens
    BY <1>1, <2>1, <2>2, TokenTyping DEF CommandOK, Reading
  <2>4. sender[s].link # "none"
    BY <1>1, <2>1, <2>2, <2>3 DEF CommandOK, ReadOK, Inv, QueueInv, Connected
  <2>5. Cut(p, s) = Relinked(sender[s])
    BY <1>3 DEF Cut, Relinked
  <2> QED BY <1>1, <2>4, <2>5, ResetTyping
<1> QED BY <1>2, <1>3

LEMMA KillInv == ASSUME Inv, NEW p \in Procs, Kill(p) PROVE Inv'
<1>1. Control /\ JobOK(p) /\ OwnOK(p) /\ pc[p] # "idle"
  BY DEF Kill, Inv, CommandOK
<1>2. ASSUME NEW s \in Senders
      PROVE  /\ sender'[s] \in Started \cup Bare /\ Kept(s)
             /\ sender'[s].orphan <=> sender[s].orphan \/ s = own[p]
  <2>1. sender'[s] = IF s = own[p] THEN Orphaned(Cut(p, s)) ELSE Cut(p, s)
    BY DEF Kill, Orphaned
  <2> QED BY <2>1, CutKeeps, ResetTyping DEF Kept
<1>3. \/ Reading(p) /\ listening' = listening \ {Token(p)} /\ queue' = [queue EXCEPT ![Token(p)] = <<>>]
      \/ ~Reading(p) /\ UNCHANGED <<listening, queue>>
  BY DEF Kill, CloseSockets
<1>4. Exit(p)
  BY DEF Kill
<1>5. Reading(p) => Token(p) \in Tokens /\ Reads(p, Token(p))
  BY <1>1, TokenTyping DEF Reading
<1>6. Control'
  <2>1. sender' \in [Senders -> Started \cup Bare]
    BY <1>2 DEF Kill
  <2>2. queue' \in [Tokens -> Seq(Senders)] /\ listening' \subseteq Tokens
    <3>1. queue \in [Tokens -> Seq(Senders)] /\ listening \subseteq Tokens /\ <<>> \in Seq(Senders)
      BY <1>1 DEF Control
    <3> QED BY <1>3, <1>5, <3>1
  <2> QED BY <1>1, <1>4, <2>1, <2>2, ExitTyping DEF Control
<1>7. \A s \in Senders, t \in Tokens : Queued(s, t)' => Queued(s, t) /\ t \in listening'
  <2> SUFFICES ASSUME NEW s \in Senders, NEW t \in Tokens, Queued(s, t)'
               PROVE  Queued(s, t) /\ t \in listening'
    OBVIOUS
  <2>1. CASE Reading(p) /\ t = Token(p)
    <3>1. queue'[t] = <<>>
      BY <1>1, <1>3, <2>1 DEF Control
    <3> QED BY <3>1 DEF Queued
  <2>2. CASE ~(Reading(p) /\ t = Token(p))
    <3>1. queue'[t] = queue[t] /\ (t \in listening => t \in listening')
      BY <1>1, <1>3, <1>5, <2>2 DEF Control
    <3> QED BY <3>1 DEF Queued, Inv, QueueInv
  <2> QED BY <2>1, <2>2
<1>8. Calm(p)
  <2>1. ~Reading(p)' /\ \A t \in Tokens : ~Reads(p, t)'
    BY <1>1, <1>4, ExitTyping DEF Reading, Reads
  <2>2. \A t \in listening' : t \in listening /\ ~(Reading(p) /\ Token(p) = t)
    BY <1>3
  <2>3. \A t \in listening : t \notin listening' => Reads(p, t)
    BY <1>3, <1>5
  <2> QED BY <1>1, <1>2, <1>4, <1>7, <2>1, <2>2, <2>3, ExitTyping DEF Calm
<1>9. \A s \in Senders : ~Queued(s, p)'
  <2>1. Reading(p) /\ Window(p) => Token(p) \in Senders
    BY <1>1, TokenTyping DEF Reading
  <2>2. CASE Reading(p)
    <3>1. Plugin(p) => Token(p) = p
      BY <1>1, <2>2, TokenTyping DEF Reading
    <3>2. CASE Plugin(p)
      <4>1. queue'[p] = <<>>
        BY <1>1, <1>3, <2>2, <3>1, <3>2 DEF Control, Tokens
      <4> QED BY <4>1 DEF Queued
    <3>3. CASE Window(p)
      <4> SUFFICES ASSUME NEW s \in Senders, Queued(s, p)' PROVE FALSE
        OBVIOUS
      <4>1. PICK q \in Procs : Reading(q) /\ Token(q) = p
        BY <1>7 DEF Inv, QueueInv, QuietInv, Tokens
      <4>2. JobOK(q)
        BY DEF Inv, CommandOK
      <4>3. Plugin(q) => Token(q) = q
        BY <1>1, <4>1, <4>2, TokenTyping DEF Reading
      <4>4. Window(q) => Token(q) \in Senders
        BY <1>1, <4>1, <4>2, TokenTyping DEF Reading
      <4> QED BY <3>3, <4>1, <4>3, <4>4, KeyAssumption DEF Plugin, Window, Reading
    <3> QED BY <1>1, <3>2, <3>3 DEF Plugin, Window
  <2>3. CASE ~Reading(p)
    BY <1>7, <2>3, NoQueue DEF Tokens
  <2> QED BY <2>2, <2>3
<1>10. CommandOK(p)'
  BY <1>1, <1>2, <1>4, <1>9, IdleOK
<1> QED BY <1>6, <1>8, <1>10, CalmInv

-----------------------------------------------------------------------------
(* Steps of a command that leave the sockets alone *)

LEMMA ReaderOf ==
    ASSUME Inv, NEW q \in Procs, NEW t \in Tokens, Reads(q, t)
    PROVE  \/ Plugin(q) /\ t = q
           \/ Window(q) /\ t \in Senders
<1>1. JobOK(q) /\ job[q] \in Jobs
  BY DEF Inv, CommandOK, Control, JobOK, Reads
<1>2. PICK i \in DOMAIN job[q].tokens : job[q].tokens[i] = t
  BY DEF Reads
<1>3. CASE Plugin(q)
  <2>1. job[q].tokens = <<q>>
    BY <1>1, <1>3 DEF JobOK
  <2> QED BY <1>2, <1>3, <2>1
<1>4. CASE Window(q)
  <2>1. job[q].tokens \in Seq(Senders)
    BY <1>1, <1>4 DEF JobOK
  <2> QED BY <1>2, <1>4, <2>1
<1> QED BY <1>3, <1>4 DEF Reads, Plugin, Window

LEMMA AskPluginInv ==
    ASSUME Inv, NEW p \in Procs, NEW v \in Volumes, AskPlugin(p, v) PROVE Inv'
<1>1. Control /\ CommandOK(p)
  BY DEF Inv
<1>2. /\ pc[p] = "idle" /\ pc'[p] = "fork"
      /\ job'[p] = [mode |-> "plugin", volume |-> v, tokens |-> <<p>>]
      /\ job'[p] \in Jobs
      /\ UNCHANGED <<own, peer, got, listening, queue, sender>>
      /\ \A q \in Procs \ {p} : pc'[q] = pc[q] /\ job'[q] = job[q]
  <2>1. <<p>> \in Seq(Tokens)
    BY DEF Tokens
  <2>2. [mode |-> "plugin", volume |-> v, tokens |-> <<p>>] \in Jobs
    BY <2>1, JobsTyping DEF AskPlugin
  <2>3. /\ pc[p] = "idle" /\ pc' = [pc EXCEPT ![p] = "fork"]
        /\ UNCHANGED <<own, peer, got, listening, queue, sender>>
    BY DEF AskPlugin, Goto
  <2>4. PICK j \in Jobs : j = [mode |-> "plugin", volume |-> v, tokens |-> <<p>>]
                         /\ job' = [job EXCEPT ![p] = j]
    BY <2>2 DEF AskPlugin
  <2>5. pc'[p] = "fork" /\ \A q \in Procs \ {p} : pc'[q] = pc[q]
    BY <1>1, <2>3 DEF Control
  <2>6. job'[p] = j /\ \A q \in Procs \ {p} : job'[q] = job[q]
    BY <1>1, <2>4 DEF Control
  <2> QED BY <2>3, <2>4, <2>5, <2>6
<1>3. Control'
  BY <1>1, <1>2 DEF AskPlugin, Goto, Control
<1>4. \A s \in Senders : Kept(s) /\ \A t \in Tokens : Queued(s, t)' <=> Queued(s, t)
  BY <1>2 DEF Queued, Kept
<1>5. \A t \in Tokens : Reads(p, t)' => t = p
  BY <1>2 DEF Reads
<1>6. \A q \in Procs \ {p} : ~Reads(q, p)
  BY ReaderOf, KeyAssumption DEF Tokens
<1>7. Calm(p)
  <2>1. \A i, j \in DOMAIN job'[p].tokens : job'[p].tokens[i] = job'[p].tokens[j] => i = j
    BY <1>2
  <2>2. \A t \in Tokens : Reads(p, t)' => \A q \in Procs \ {p} : ~Reads(q, t)
    BY <1>5, <1>6
  <2>3. ~Reading(p) /\ QueueInv
    BY <1>2 DEF Reading, Inv
  <2> QED BY <1>2, <1>4, <2>1, <2>2, <2>3 DEF Calm, QueueInv
<1>8. CommandOK(p)'
  <2>1. own[p] = NoSender /\ got[p] = <<>> /\ peer[p] = NoSender
    BY <1>1, <1>2 DEF CommandOK, JobOK
  <2>2. JobOK(p)'
    BY <1>2, <2>1, JobsTyping DEF JobOK, Plugin, Window
  <2>3. OwnOK(p)'
    BY <1>1, <1>2, <1>4, <2>1, KeyAssumption DEF CommandOK, OwnOK, Tokens
  <2> QED BY <1>2, <2>2, <2>3 DEF CommandOK, ReadOK, Reading, WindowOK, GotOK, Plugin, Window
<1> QED BY <1>3, <1>7, <1>8, CalmInv

LEMMA AskWindowInv ==
    ASSUME Inv, NEW p \in Procs, NEW v \in Volumes, NEW mode \in {"file", "add"},
           NEW ss \in Seq(Free), Len(ss) \in {1, 2},
           \A i, j \in DOMAIN ss : ss[i] = ss[j] => i = j,
           AskWindow(p, v, mode, ss)
    PROVE  Inv'
<1>1. Control /\ CommandOK(p)
  BY DEF Inv
<1>2. \A i \in DOMAIN ss : ss[i] \in Free /\ ss[i] \in Senders
  BY FreeIsNobodys
<1>3. ss \in Seq(Senders) /\ ss \in Seq(Tokens)
  BY <1>2 DEF Tokens
<1>4. /\ pc[p] = "idle" /\ pc'[p] = "bind"
      /\ job'[p] = [mode |-> mode, volume |-> v, tokens |-> ss]
      /\ job'[p] \in Jobs
      /\ UNCHANGED <<own, peer, got, listening, queue>>
      /\ \A q \in Procs \ {p} : pc'[q] = pc[q] /\ job'[q] = job[q]
  <2>1. [mode |-> mode, volume |-> v, tokens |-> ss] \in Jobs
    BY <1>3, JobsTyping DEF AskWindow
  <2>2. /\ pc[p] = "idle" /\ pc' = [pc EXCEPT ![p] = "bind"]
        /\ UNCHANGED <<own, peer, got, listening, queue>>
    BY DEF AskWindow, Goto
  <2>3. PICK j \in Jobs : j = [mode |-> mode, volume |-> v, tokens |-> ss]
                         /\ job' = [job EXCEPT ![p] = j]
    BY <2>1 DEF AskWindow
  <2>4. pc'[p] = "bind" /\ \A q \in Procs \ {p} : pc'[q] = pc[q]
    BY <1>1, <2>2 DEF Control
  <2>5. job'[p] = j /\ \A q \in Procs \ {p} : job'[q] = job[q]
    BY <1>1, <2>3 DEF Control
  <2> QED BY <2>2, <2>3, <2>4, <2>5
<1>5. ASSUME NEW s \in Senders
      PROVE  \/ /\ \E i \in DOMAIN ss : s = ss[i]
                /\ sender'[s] = New(s, v) /\ s \in Free /\ Fresh(s, p)
             \/ /\ ~ \E i \in DOMAIN ss : s = ss[i]
                /\ sender'[s] = sender[s] /\ Kept(s)
  <2>1. sender'[s] = IF \E i \in DOMAIN ss : s = ss[i] THEN New(s, v) ELSE sender[s]
    BY DEF AskWindow
  <2> QED BY <1>2, <2>1 DEF Fresh, Kept
<1>6. ASSUME NEW s \in Senders PROVE sender'[s] \in Started \cup Bare
  <2>1. sender[s] \in Started \cup Bare
    BY <1>1 DEF Control
  <2>2. New(s, v) \in Started
    BY NewTyping DEF Tokens
  <2> QED BY <1>5, <2>1, <2>2
<1>7. Control'
  <2>1. sender' \in [Senders -> Started \cup Bare]
    BY <1>6 DEF AskWindow
  <2> QED BY <1>1, <1>4, <2>1 DEF AskWindow, Goto, Control
<1>8. \A s \in Senders, t \in Tokens : Queued(s, t)' <=> Queued(s, t)
  BY <1>4 DEF Queued
<1>9. \A t \in Tokens : Reads(p, t)' => t \in Free
  BY <1>2, <1>4 DEF Reads
<1>10. Calm(p)
  <2>1. \A i, j \in DOMAIN job'[p].tokens : job'[p].tokens[i] = job'[p].tokens[j] => i = j
    BY <1>4
  <2>2. \A t \in Tokens : Reads(p, t)' => \A q \in Procs \ {p} : ~Reads(q, t)
    BY <1>9, FreeIsNobodys
  <2>3. \A s \in Senders : sender'[s].orphan => sender[s].orphan
    BY <1>5, NewTyping DEF Tokens
  <2>4. \A s \in Senders : Fresh(s, p) \/ Kept(s)
    BY <1>5
  <2>5. ~Reading(p) /\ listening' = listening /\ QueueInv
    BY <1>4 DEF Reading, Inv
  <2> QED BY <1>4, <1>8, <2>1, <2>2, <2>3, <2>4, <2>5 DEF Calm, QueueInv
<1>11. CommandOK(p)'
  <2>1. own[p] = NoSender /\ got[p] = <<>> /\ peer[p] = NoSender
    BY <1>1, <1>4 DEF CommandOK, JobOK
  <2>2. JobOK(p)'
    <3>1. job'[p] # NoJob /\ job'[p].mode = mode /\ job'[p].tokens = ss
      BY <1>4, JobsTyping
    <3>2. pc'[p] = "bind" /\ own'[p] = NoSender /\ got'[p] = <<>> /\ peer'[p] = NoSender
      BY <1>4, <2>1
    <3>3. PICK n \in {1, 2} : Len(job'[p].tokens) = n
      BY <3>1
    <3>4. Len(got'[p]) = 0 /\ 0 < n
      BY <3>2
    <3>5. ~Plugin(p)'
      BY <3>1 DEF Plugin
    <3> QED BY <1>3, <3>1, <3>2, <3>3, <3>4, <3>5 DEF JobOK
  <2>3. OwnOK(p)'
    <3> SUFFICES ASSUME NEW s \in Senders,
                        sender'[s].pc # "gone" \/ Queued(s, p)' \/ peer'[p] = s,
                        sender'[s].token = p, ~sender'[s].orphan
                 PROVE  FALSE
      BY <1>4, <2>1, KeyAssumption DEF OwnOK
    <3>1. sender'[s] = sender[s]
      BY <1>5, NewTyping, KeyAssumption DEF Tokens
    <3> QED BY <1>1, <1>4, <1>8, <2>1, <3>1, KeyAssumption DEF CommandOK, OwnOK, Tokens
  <2>4. WindowOK(p)'
    <3> SUFFICES ASSUME NEW s \in Senders, Reads(p, s)'
                 PROVE  sender'[s] \in Started /\ sender'[s].token = s
                        /\ sender'[s].volume = job'[p].volume
      BY DEF WindowOK
    <3>1. \E i \in DOMAIN ss : s = ss[i]
      BY <1>4 DEF Reads
    <3>2. sender'[s] = New(s, v)
      BY <1>5, <3>1
    <3> QED BY <1>4, <3>2, NewTyping DEF Tokens
  <2> QED BY <1>4, <2>1, <2>2, <2>3, <2>4 DEF CommandOK, ReadOK, Reading, GotOK, Plugin, Window
<1> QED BY <1>7, <1>10, <1>11, CalmInv

LEMMA AskInv == ASSUME Inv, NEW p \in Procs, Ask(p) PROVE Inv'
<1>1. ASSUME NEW v \in Volumes, NEW s \in Free, AskWindow(p, v, "file", <<s>>) PROVE Inv'
  <2>0. <<s>> \in Seq(Free)
    OBVIOUS
  <2>1. PICK ss \in Seq(Free) : ss = <<s>>
    BY <2>0
  <2>2. Len(ss) \in {1, 2} /\ \A i, j \in DOMAIN ss : ss[i] = ss[j] => i = j
    BY <2>1
  <2> QED BY <1>1, <2>1, <2>2, AskWindowInv
<1>2. ASSUME NEW v \in Volumes, NEW s1 \in Free, NEW s2 \in Free, s1 # s2,
             AskWindow(p, v, "add", <<s1, s2>>)
      PROVE  Inv'
  <2>0. <<s1, s2>> \in Seq(Free)
    OBVIOUS
  <2>1. PICK ss \in Seq(Free) : ss = <<s1, s2>>
    BY <2>0
  <2>2. Len(ss) \in {1, 2} /\ \A i, j \in DOMAIN ss : ss[i] = ss[j] => i = j
    BY <1>2, <2>1
  <2> QED BY <1>2, <2>1, <2>2, AskWindowInv
<1> QED BY <1>1, <1>2, AskPluginInv DEF Ask


-----------------------------------------------------------------------------
(* Steps of a command that goes on *)

\* Its sockets are as before, its own alone
LEMMA SameJob ==
    ASSUME Inv, NEW p \in Procs, job' = job, pc[p] # "idle"
    PROVE  /\ \A t \in Tokens : Reads(p, t)' => \A q \in Procs \ {p} : ~Reads(q, t)
           /\ \A i, j \in DOMAIN job'[p].tokens :
                job'[p].tokens[i] = job'[p].tokens[j] => i = j
BY DEF Inv, ReadsInv, Reads

\* Nothing happens to senders and sockets
LEMMA SameSockets ==
    ASSUME Inv, NEW p \in Procs, UNCHANGED <<job, listening, queue, sender>>,
           pc[p] # "idle", ~Reading(p),
           \A q \in Procs \ {p} : /\ pc'[q] = pc[q] /\ own'[q] = own[q]
                                  /\ peer'[q] = peer[q] /\ got'[q] = got[q]
    PROVE  Calm(p) /\ \A s \in Senders : Kept(s) /\ \A t \in Tokens : Queued(s, t)' <=> Queued(s, t)
<1>1. \A s \in Senders : Kept(s) /\ \A t \in Tokens : Queued(s, t)' <=> Queued(s, t)
  BY DEF Queued, Kept
<1> QED BY <1>1, SameJob DEF Calm, Inv, QueueInv

LEMMA ForkInv == ASSUME Inv, NEW p \in Procs, Fork(p) PROVE Inv'
<1>1. Control /\ CommandOK(p)
  BY DEF Inv
<1>2. /\ pc[p] = "fork" /\ pc'[p] = "bind" /\ \A q \in Procs \ {p} : pc'[q] = pc[q]
      /\ UNCHANGED <<job, peer, got, listening, queue>>
  BY <1>1 DEF Fork, Goto, Control
<1>3. pc' \in [Procs -> {"idle", "fork", "bind", "accept", "read", "wait", "use"}]
  BY <1>1 DEF Fork, Goto, Control
<1>4. /\ Plugin(p) /\ own[p] = NoSender /\ got[p] = <<>> /\ peer[p] = NoSender
      /\ job[p].tokens = <<p>> /\ job[p] \in Jobs /\ job[p] # NoJob /\ ~Reading(p)
  BY <1>1, <1>2, JobsTyping DEF CommandOK, JobOK, Plugin, Control, Reading
<1>5. \A s \in Senders, t \in Tokens : Queued(s, t)' <=> Queued(s, t)
  BY <1>2 DEF Queued
<1>6. ASSUME NEW s \in Free, own' = [own EXCEPT ![p] = s],
             sender' = [sender EXCEPT ![s] = New(p, job[p].volume)]
      PROVE  Inv'
  <2>1. s \in Senders /\ own'[p] = s /\ \A q \in Procs \ {p} : own'[q] = own[q]
    BY <1>1, <1>6, FreeIsNobodys DEF Control
  <2>2. own' \in [Procs -> Senders \cup {NoSender}]
    BY <1>1, <1>6, <2>1 DEF Control
  <2>3. /\ job[p].volume \in Volumes /\ p \in Tokens
        /\ New(p, job[p].volume) \in Started
    BY <1>4, JobsTyping, NewTyping DEF Tokens
  <2>4. sender'[s] = New(p, job[p].volume) /\ \A r \in Senders \ {s} : sender'[r] = sender[r]
    BY <1>1, <1>6, <2>1 DEF Control
  <2>5. sender' \in [Senders -> Started \cup Bare]
    BY <1>1, <1>6, <2>1, <2>3 DEF Control
  <2>6. Control'
    BY <1>1, <1>2, <1>3, <2>2, <2>5 DEF Control
  <2>7. Fresh(s, p) /\ \A r \in Senders \ {s} : Kept(r)
    BY <1>6, <2>3, <2>4 DEF Fresh, Kept
  <2>8. Calm(p)
    <3>1. \A r \in Senders : sender'[r].orphan => sender[r].orphan
      BY <2>3, <2>4, NewTyping
    <3>2. \A r \in Senders : Fresh(r, p) \/ Kept(r)
      BY <2>7
    <3> QED BY <1>2, <1>4, <1>5, <2>1, <3>1, <3>2, SameJob DEF Calm, Inv, QueueInv
  <2>9. OwnOK(p)'
    <3>1. /\ sender'[s] \in Started /\ sender'[s].token = p
          /\ sender'[s].volume = job'[p].volume /\ ~sender'[s].orphan
      BY <1>2, <2>3, <2>4, NewTyping
    <3>2. ASSUME NEW r \in Senders \ {s}, sender'[r].pc # "gone" \/ Queued(r, p)' \/ peer'[p] = r,
                 sender'[r].token = p, ~sender'[r].orphan
          PROVE  FALSE
      BY <1>1, <1>2, <1>4, <1>5, <2>3, <2>4, <3>2, KeyAssumption DEF CommandOK, OwnOK
    <3> QED BY <2>1, <3>1, <3>2 DEF OwnOK
  <2>10. JobOK(p)'
    BY <1>2, <1>4 DEF JobOK, Plugin, Window
  <2> QED BY <1>2, <1>4, <2>6, <2>8, <2>9, <2>10, CalmInv
          DEF CommandOK, ReadOK, Reading, WindowOK, GotOK, Plugin, Window
<1>7. CASE UNCHANGED <<own, sender>>
  <2>1. Control'
    BY <1>1, <1>2, <1>3, <1>7 DEF Control
  <2>2. Calm(p) /\ \A s \in Senders : Kept(s) /\ \A t \in Tokens : Queued(s, t)' <=> Queued(s, t)
    BY <1>2, <1>4, <1>7, SameSockets
  <2>3. OwnOK(p)'
    BY <1>1, <1>2, <1>4, <1>5, <1>7, KeyAssumption DEF CommandOK, OwnOK, Tokens
  <2>4. JobOK(p)'
    BY <1>2, <1>4, <1>7 DEF JobOK, Plugin, Window
  <2> QED BY <1>2, <1>4, <1>7, <2>1, <2>2, <2>3, <2>4, CalmInv
          DEF CommandOK, ReadOK, Reading, WindowOK, GotOK, Plugin, Window
<1> QED BY <1>6, <1>7 DEF Fork

LEMMA BindInv == ASSUME Inv, NEW p \in Procs, Bind(p) PROVE Inv'
<1>1. Control /\ CommandOK(p)
  BY DEF Inv
<1>2. /\ pc[p] = "bind" /\ pc'[p] = "accept" /\ \A q \in Procs \ {p} : pc'[q] = pc[q]
      /\ UNCHANGED <<job, own, peer, got, queue, sender>>
      /\ listening' = listening \cup {Token(p)}
  BY <1>1 DEF Bind, Goto, Control
<1>3. pc' \in [Procs -> {"idle", "fork", "bind", "accept", "read", "wait", "use"}]
  BY <1>1 DEF Bind, Goto, Control
<1>4. Token(p) \in Tokens /\ Token(p)' = Token(p) /\ ~Reading(p) /\ Reading(p)'
  BY <1>1, <1>2, TokenTyping DEF CommandOK, Token, Reading
<1>5. Control'
  BY <1>1, <1>2, <1>3, <1>4 DEF Control
<1>6. \A s \in Senders : Kept(s) /\ \A t \in Tokens : Queued(s, t)' <=> Queued(s, t)
  BY <1>2 DEF Queued, Kept
<1>7. Calm(p)
  BY <1>2, <1>4, <1>6, SameJob DEF Calm, Inv, QueueInv
<1>8. CommandOK(p)'
  <2>1. JobOK(p)'
    BY <1>1, <1>2 DEF CommandOK, JobOK, Plugin, Window
  <2>2. OwnOK(p)'
    BY <1>1, <1>2, <1>6 DEF CommandOK, OwnOK, Tokens
  <2>3. WindowOK(p)'
    BY <1>1, <1>2 DEF CommandOK, WindowOK, Window, Reads
  <2>4. GotOK(p)'
    BY <1>1, <1>2 DEF CommandOK, GotOK, Plugin, Window
  <2> QED BY <1>2, <1>4, <2>1, <2>2, <2>3, <2>4 DEF CommandOK, ReadOK
<1> QED BY <1>5, <1>7, <1>8, CalmInv


\* A command that takes a key, or none, and goes on with it
LEMMA TakeTyping ==
    ASSUME Control, NEW p \in Procs, JobOK(p), pc[p] \in {"bind", "read"},
           NEW key \in Messages \cup {NoKey}, Take(p, key),
           ~(job[p].mode = "file" /\ key = NoKey)
    PROVE  /\ pc' \in [Procs -> {"idle", "fork", "bind", "accept", "read", "wait", "use"}]
           /\ got' \in [Procs -> Seq(Messages \cup {NoKey})]
           /\ peer' \in [Procs -> Senders \cup {NoSender}]
           /\ UNCHANGED <<job, own>> /\ peer'[p] = NoSender /\ JobOK(p)'
           /\ pc'[p] \in {"bind", "wait", "use"}
           /\ Plugin(p) => pc'[p] = "wait" /\ got'[p][1] = key
           /\ Window(p) => pc'[p] # "wait"
           /\ \A i \in DOMAIN got'[p] : (i \in DOMAIN got[p] /\ got'[p][i] = got[p][i])
                                        \/ got'[p][i] = key
           /\ \A q \in Procs \ {p} : pc'[q] = pc[q] /\ peer'[q] = peer[q] /\ got'[q] = got[q]
<1>1. got[p] \in Seq(Messages \cup {NoKey}) /\ job[p] \in Jobs /\ job[p].tokens \in Seq(Tokens)
  BY JobsTyping DEF Control, JobOK
<1>2. PICK l \in {"bind", "wait", "use"} :
        /\ pc' = [pc EXCEPT ![p] = l]
        /\ l = IF job[p].mode = "plugin" THEN "wait"
               ELSE IF Len(got[p]) + 1 = Len(job[p].tokens) THEN "use" ELSE "bind"
  BY DEF Take, Goto
<1>3. /\ got' = [got EXCEPT ![p] = Append(got[p], key)]
      /\ peer' = [peer EXCEPT ![p] = NoSender] /\ UNCHANGED <<job, own>>
  BY DEF Take
<1>4. Append(got[p], key) \in Seq(Messages \cup {NoKey})
      /\ Len(Append(got[p], key)) = Len(got[p]) + 1
      /\ Append(got[p], key)[Len(got[p]) + 1] = key
      /\ \A i \in 1 .. Len(got[p]) : Append(got[p], key)[i] = got[p][i]
  BY <1>1
<1>5. /\ pc'[p] = l /\ got'[p] = Append(got[p], key) /\ peer'[p] = NoSender
      /\ \A q \in Procs \ {p} : pc'[q] = pc[q] /\ peer'[q] = peer[q] /\ got'[q] = got[q]
      /\ pc' \in [Procs -> {"idle", "fork", "bind", "accept", "read", "wait", "use"}]
      /\ got' \in [Procs -> Seq(Messages \cup {NoKey})]
      /\ peer' \in [Procs -> Senders \cup {NoSender}]
  BY <1>2, <1>3, <1>4 DEF Control
<1>6. CASE Plugin(p)
  <2>1. l = "wait" /\ got[p] = <<>> /\ job[p].tokens = <<p>>
    BY <1>2, <1>6 DEF Plugin, JobOK
  <2>2. Len(got'[p]) = 1 /\ got'[p][1] = key
    BY <1>4, <1>5, <2>1
  <2>3. JobOK(p)'
    BY <1>3, <1>5, <1>6, <2>1, <2>2 DEF JobOK, Plugin, Window
  <2>4. \A i \in DOMAIN got'[p] : got'[p][i] = key
    BY <1>4, <1>5, <2>1, <2>2
  <2> QED BY <1>3, <1>5, <1>6, <2>1, <2>2, <2>3, <2>4 DEF Plugin, Window
<1>7. CASE Window(p)
  <2>1. /\ Len(got[p]) < Len(job[p].tokens) /\ Len(got[p]) \in Nat /\ Len(job[p].tokens) \in Nat
    BY <1>1, <1>7 DEF JobOK
  <2>2. l # "wait" /\ (l = "bind" => Len(got[p]) + 1 # Len(job[p].tokens))
    BY <1>2, <1>7 DEF Window
  <2>3. Len(got'[p]) <= Len(job[p].tokens) /\ (l = "bind" => Len(got'[p]) < Len(job[p].tokens))
    BY <1>4, <1>5, <2>1, <2>2
  <2>4. JobOK(p)'
    BY <1>3, <1>5, <1>7, <2>2, <2>3 DEF JobOK, Plugin, Window
  <2>5. \A i \in DOMAIN got'[p] : (i \in DOMAIN got[p] /\ got'[p][i] = got[p][i]) \/ got'[p][i] = key
    <3>1. DOMAIN got'[p] = 1 .. Len(got[p]) + 1 /\ DOMAIN got[p] = 1 .. Len(got[p])
      BY <1>1, <1>4, <1>5
    <3> QED BY <1>4, <1>5, <2>1, <3>1
  <2> QED BY <1>3, <1>5, <1>7, <2>2, <2>4, <2>5 DEF Plugin, Window
<1> QED BY <1>6, <1>7 DEF Plugin, Window

LEMMA BindFailsInv == ASSUME Inv, NEW p \in Procs, BindFails(p) PROVE Inv'
<1>1. Control /\ CommandOK(p) /\ pc[p] = "bind" /\ UNCHANGED <<listening, queue, sender>>
  BY DEF Inv, BindFails
<1>2. CASE job[p].mode = "file"
  <2>1. Exit(p) /\ own[p] = NoSender /\ ~Reading(p)
    BY <1>1, <1>2 DEF BindFails, Take, CommandOK, JobOK, Window, Reading
  <2> QED BY <1>1, <2>1, ExitInv, KeyAssumption
<1>3. CASE job[p].mode # "file"
  <2>1. Take(p, NoKey) /\ JobOK(p)
    BY <1>1 DEF BindFails, CommandOK
  <2>2. /\ pc' \in [Procs -> {"idle", "fork", "bind", "accept", "read", "wait", "use"}]
        /\ got' \in [Procs -> Seq(Messages \cup {NoKey})]
        /\ peer' \in [Procs -> Senders \cup {NoSender}]
        /\ UNCHANGED <<job, own>> /\ peer'[p] = NoSender /\ JobOK(p)'
        /\ pc'[p] \in {"bind", "wait", "use"}
        /\ Plugin(p) => pc'[p] = "wait" /\ got'[p][1] = NoKey
        /\ Window(p) => pc'[p] # "wait"
        /\ \A i \in DOMAIN got'[p] : (i \in DOMAIN got[p] /\ got'[p][i] = got[p][i])
                                     \/ got'[p][i] = NoKey
        /\ \A q \in Procs \ {p} : pc'[q] = pc[q] /\ peer'[q] = peer[q] /\ got'[q] = got[q]
    BY <1>1, <1>3, <2>1, TakeTyping
  <2>3. Control'
    BY <1>1, <2>2 DEF Control
  <2>4. Calm(p) /\ \A s \in Senders : Kept(s) /\ \A t \in Tokens : Queued(s, t)' <=> Queued(s, t)
    BY <1>1, <2>2, SameSockets DEF Reading
  <2>5. peer[p] = NoSender
    BY <1>1 DEF CommandOK, JobOK
  <2>6. OwnOK(p)'
    BY <1>1, <2>2, <2>4, <2>5 DEF CommandOK, OwnOK, Tokens
  <2>7. WindowOK(p)'
    BY <1>1, <2>2 DEF CommandOK, WindowOK, Window, Reads
  <2>8. GotOK(p)'
    <3>1. pc'[p] = "use" => own[p] = NoSender
      BY <1>1, <2>2 DEF CommandOK, JobOK, Plugin, Window
    <3>2. Plugin(p)' => ~Fair(got'[p][1]) /\ pc'[p] # "use"
      BY <1>1, <2>2 DEF Plugin, Fair
    <3>3. Window(p)' => \A i \in DOMAIN got'[p] : Fair(got'[p][i]) => got'[p][i].volume = job'[p].volume
      BY <1>1, <2>2 DEF CommandOK, GotOK, Window, Fair
    <3> QED BY <2>2, <3>1, <3>2, <3>3 DEF GotOK, Fair
  <2> QED BY <2>2, <2>3, <2>4, <2>6, <2>7, <2>8, CalmInv DEF CommandOK, ReadOK, Reading
<1> QED BY <1>2, <1>3


LEMMA AcceptInv == ASSUME Inv, NEW p \in Procs, Accept(p) PROVE Inv'
<1>1. Control /\ CommandOK(p)
  BY DEF Inv
<1>2. /\ pc[p] = "accept" /\ pc'[p] = "read" /\ \A q \in Procs \ {p} : pc'[q] = pc[q]
      /\ UNCHANGED <<job, own, got, listening, sender>>
      /\ peer' = [peer EXCEPT ![p] = Head(queue[Token(p)])]
      /\ queue' = [queue EXCEPT ![Token(p)] = Tail(queue[Token(p)])]
      /\ queue[Token(p)] # <<>>
  BY <1>1 DEF Accept, Goto, Control
<1>3. pc' \in [Procs -> {"idle", "fork", "bind", "accept", "read", "wait", "use"}]
  BY <1>1 DEF Accept, Goto, Control
<1>4. Token(p) \in Tokens /\ Token(p)' = Token(p) /\ Reading(p) /\ Reading(p)'
  BY <1>1, <1>2, TokenTyping DEF CommandOK, Token, Reading
<1>5. PICK h \in Senders : /\ h = Head(queue[Token(p)]) /\ Queued(h, Token(p))
                           /\ Tail(queue[Token(p)]) \in Seq(Senders)
  <2>1. queue[Token(p)] \in Seq(Senders)
    BY <1>1, <1>4 DEF Control
  <2> QED BY <1>2, <2>1 DEF Queued
<1>6. peer'[p] = h /\ peer' \in [Procs -> Senders \cup {NoSender}]
      /\ \A q \in Procs \ {p} : peer'[q] = peer[q]
  BY <1>1, <1>2, <1>5 DEF Control
<1>7. queue' \in [Tokens -> Seq(Senders)]
  BY <1>1, <1>2, <1>4, <1>5 DEF Control
<1>8. Control'
  BY <1>1, <1>2, <1>3, <1>6, <1>7 DEF Control
<1>9. ASSUME NEW s \in Senders, NEW t \in Tokens, Queued(s, t)' PROVE Queued(s, t)
  <2>1. CASE t = Token(p)
    <3>1. queue[t] \in Seq(Senders) /\ queue'[t] = Tail(queue[t]) /\ queue[t] # <<>>
      BY <1>1, <1>2, <1>4, <2>1 DEF Control
    <3>2. PICK i \in DOMAIN Tail(queue[t]) : Tail(queue[t])[i] = s
      BY <1>9, <3>1 DEF Queued
    <3>3. i + 1 \in DOMAIN queue[t] /\ queue[t][i + 1] = s
      BY <3>1, <3>2
    <3> QED BY <3>3 DEF Queued
  <2>2. CASE t # Token(p)
    BY <1>1, <1>2, <1>9, <2>2 DEF Control, Queued
  <2> QED BY <2>1, <2>2
<1>10. \A s \in Senders : Kept(s)
  BY <1>2 DEF Kept
<1>11. Connected(h, Token(p)) /\ Token(p) \in listening
  BY <1>4, <1>5 DEF Inv, QueueInv
<1>12. Calm(p)
  <2>1. \A t \in Tokens, s \in Senders : Queued(s, t)' => Queued(s, t) /\ t \in listening'
    BY <1>2, <1>9 DEF Inv, QueueInv
  <2>2. \A t \in listening' : \/ t \in listening /\ ~(Reading(p) /\ Token(p) = t)
                              \/ Reading(p)' /\ Token(p)' = t
    BY <1>2, <1>4
  <2>3. \A s \in Senders : sender'[s].orphan => sender[s].orphan
    BY <1>2
  <2> QED BY <1>2, <1>6, <1>10, <2>1, <2>2, <2>3, SameJob DEF Calm
<1>13. CommandOK(p)'
  <2>1. JobOK(p)'
    BY <1>1, <1>2 DEF CommandOK, JobOK, Plugin, Window
  <2>2. ReadOK(p)'
    BY <1>2, <1>4, <1>6, <1>11 DEF ReadOK, Reading, Connected
  <2>3. OwnOK(p)'
    <3>1. Connected(h, Token(p)) /\ sender[h].token = p => Queued(h, p)
      BY <1>5 DEF Connected
    <3> QED BY <1>1, <1>2, <1>6, <1>9, <1>11, <3>1 DEF CommandOK, OwnOK, Tokens
  <2>4. WindowOK(p)'
    BY <1>1, <1>2 DEF CommandOK, WindowOK, Window, Reads
  <2>5. GotOK(p)'
    BY <1>1, <1>2 DEF CommandOK, GotOK, Plugin, Window
  <2> QED BY <2>1, <2>2, <2>3, <2>4, <2>5 DEF CommandOK
<1> QED BY <1>8, <1>12, <1>13, CalmInv

\* What a command reads is the key of its own plugin, or of one that outlived its
\* command, or of its window's thread
LEMMA ReadInv == ASSUME Inv, NEW p \in Procs, Read(p) PROVE Inv'
<1>1. Control /\ CommandOK(p) /\ pc[p] = "read" /\ Reading(p)
  BY DEF Inv, Read, Reading
<1>2. PICK h \in Senders : h = peer[p] /\ Connected(h, Token(p)) /\ sender[h].pc = "gone"
  BY <1>1 DEF CommandOK, ReadOK, Read, EndOfFile
<1>3. PICK m \in Messages : /\ m = [volume |-> sender[h].volume, sent |-> sender[h].sent,
                                    orphan |-> sender[h].orphan]
                            /\ m # NoKey /\ Take(p, m)
  <2>1. sender[h].volume \in Volumes /\ sender[h].sent \in 0 .. Parts /\ sender[h].orphan \in BOOLEAN
    BY <1>1, <1>2, RecordTyping DEF Connected, Control
  <2>2. [volume |-> sender[h].volume, sent |-> sender[h].sent, orphan |-> sender[h].orphan] \in Messages
    BY <2>1 DEF Messages
  <2> QED BY <1>2, <2>2, KeyAssumption DEF Read
<1>4. Token(p) \in Tokens /\ Reads(p, Token(p)) /\ (Plugin(p) => Token(p) = p)
      /\ (Window(p) => Token(p) \in Senders) /\ JobOK(p)
  BY <1>1, TokenTyping DEF CommandOK
<1>5. /\ pc' \in [Procs -> {"idle", "fork", "bind", "accept", "read", "wait", "use"}]
      /\ got' \in [Procs -> Seq(Messages \cup {NoKey})]
      /\ peer' \in [Procs -> Senders \cup {NoSender}]
      /\ UNCHANGED <<job, own>> /\ peer'[p] = NoSender /\ JobOK(p)'
      /\ pc'[p] \in {"bind", "wait", "use"}
      /\ Plugin(p) => pc'[p] = "wait" /\ got'[p][1] = m
      /\ Window(p) => pc'[p] # "wait"
      /\ \A i \in DOMAIN got'[p] : (i \in DOMAIN got[p] /\ got'[p][i] = got[p][i]) \/ got'[p][i] = m
      /\ \A q \in Procs \ {p} : pc'[q] = pc[q] /\ peer'[q] = peer[q] /\ got'[q] = got[q]
  BY <1>1, <1>3, <1>4, TakeTyping
<1>6. /\ listening' = listening \ {Token(p)} /\ queue' = [queue EXCEPT ![Token(p)] = <<>>]
      /\ sender' = [s \in Senders |-> Cut(p, s)]
  BY <1>1 DEF Read, CloseSockets
<1>7. ASSUME NEW s \in Senders
      PROVE  /\ sender'[s] \in Started \cup Bare /\ Kept(s) /\ sender'[s].orphan = sender[s].orphan
  <2>1. sender'[s] = Cut(p, s)
    BY <1>6
  <2> QED BY <2>1, CutKeeps DEF Kept
<1>8. Control'
  <2>1. sender' \in [Senders -> Started \cup Bare]
    BY <1>6, <1>7
  <2>2. queue \in [Tokens -> Seq(Senders)] /\ listening \subseteq Tokens /\ <<>> \in Seq(Senders)
    BY <1>1 DEF Control
  <2>3. queue' \in [Tokens -> Seq(Senders)] /\ listening' \subseteq Tokens
    BY <1>4, <1>6, <2>2
  <2> QED BY <1>1, <1>5, <2>1, <2>3 DEF Control
<1>9. ASSUME NEW s \in Senders, NEW t \in Tokens, Queued(s, t)'
      PROVE  Queued(s, t) /\ t \in listening'
  <2>1. CASE t = Token(p)
    <3>1. queue'[t] = <<>>
      BY <1>1, <1>6, <2>1 DEF Control
    <3> QED BY <1>9, <3>1 DEF Queued
  <2>2. CASE t # Token(p)
    <3>1. queue'[t] = queue[t] /\ (t \in listening => t \in listening')
      BY <1>1, <1>4, <1>6, <2>2 DEF Control
    <3> QED BY <1>9, <3>1 DEF Queued, Inv, QueueInv
  <2> QED BY <2>1, <2>2
<1>10. Calm(p)
  <2>1. \A t \in listening' : t \in listening /\ ~(Reading(p) /\ Token(p) = t)
    BY <1>6
  <2>2. \A t \in listening : t \notin listening' => Reads(p, t)
    BY <1>4, <1>6
  <2>3. pc[p] # "idle"
    BY <1>1
  <2> QED BY <1>5, <1>7, <1>9, <2>1, <2>2, <2>3, SameJob DEF Calm
<1>11. CommandOK(p)'
  <2>1. OwnOK(p)'
    <3> SUFFICES ASSUME NEW s \in Senders
                 PROVE  /\ own[p] = s => /\ sender'[s] \in Started /\ sender'[s].token = p
                                         /\ sender'[s].volume = job[p].volume /\ ~sender'[s].orphan
                        /\ /\ sender'[s].pc # "gone" \/ Queued(s, p)'
                           /\ sender'[s].token = p /\ ~sender'[s].orphan
                           => own[p] = s
      BY <1>5, KeyAssumption DEF OwnOK
    <3>1. Queued(s, p)' => Queued(s, p)
      BY <1>9 DEF Tokens
    <3>2. sender'[s].pc # "gone" \/ Queued(s, p) => sender[s] \in Started
      BY <1>7 DEF Kept, Inv, SenderInv, SenderGood, QueueInv, Connected, Tokens
    <3> QED BY <1>1, <1>7, <3>1, <3>2 DEF CommandOK, OwnOK, Kept
  <2>2. WindowOK(p)'
    BY <1>1, <1>5, <1>7 DEF CommandOK, WindowOK, Window, Reads, Kept
  <2>3. GotOK(p)'
    <3>1. pc'[p] = "use" => own[p] = NoSender
      BY <1>1, <1>5 DEF CommandOK, JobOK, Plugin, Window
    <3>2. ASSUME Plugin(p), Fair(m)
          PROVE  /\ own[p] = h /\ m.volume = job[p].volume /\ sender'[h].pc = "gone"
                 /\ sender'[h].link # "none" /\ m.sent = sender'[h].sent
      <4>1. sender[h].token = p /\ ~sender[h].orphan /\ sender[h].link # "none"
        BY <1>2, <1>3, <1>4, <3>2 DEF Connected, Fair
      <4>2. own[p] = h /\ sender[h].volume = job[p].volume
        BY <1>1, <1>2, <4>1 DEF CommandOK, OwnOK
      <4> QED BY <1>2, <1>3, <1>7, <4>1, <4>2 DEF Kept
    <3>3. Window(p) => m.volume = job[p].volume
      <4> SUFFICES ASSUME Window(p) PROVE sender[h].volume = job[p].volume
        BY <1>3
      <4>1. h = Token(p) /\ Reads(p, h)
        BY <1>2, <1>4, KeyAssumption DEF Connected
      <4> QED BY <1>1, <4>1 DEF CommandOK, WindowOK
    <3>4. Window(p)' => \A i \in DOMAIN got'[p] : Fair(got'[p][i]) => got'[p][i].volume = job'[p].volume
      BY <1>1, <1>5, <3>3 DEF CommandOK, GotOK, Window, Fair
    <3>5. Plugin(p)' => Plugin(p) /\ pc'[p] = "wait" /\ got'[p][1] = m
      BY <1>1, <1>5 DEF Plugin
    <3>6. Plugin(p) /\ Fair(m) => own[p] # NoSender
      BY <1>2, <3>2, KeyAssumption
    <3> QED BY <1>5, <3>1, <3>2, <3>4, <3>5, <3>6 DEF GotOK, Fair
  <2> QED BY <1>5, <2>1, <2>2, <2>3 DEF CommandOK, ReadOK, Reading
<1> QED BY <1>8, <1>10, <1>11, CalmInv

LEMMA WaitInv == ASSUME Inv, NEW p \in Procs, Wait(p) PROVE Inv'
<1>1. /\ Control /\ CommandOK(p) /\ pc[p] = "wait" /\ ~Reading(p) /\ Plugin(p)
      /\ UNCHANGED <<listening, queue, sender>>
      /\ own[p] # NoSender => sender[own[p]].pc = "gone"
  BY DEF Inv, Wait, Reading, Plugin, CommandOK, JobOK
<1>2. CASE Exit(p)
  BY <1>1, <1>2, ExitInv, KeyAssumption
<1>3. CASE \E ok \in Status(p) : ok /\ Goto(p, "use") /\ UNCHANGED <<job, own, peer, got>>
  <2>1. PICK ok \in Status(p) : ok /\ Goto(p, "use") /\ UNCHANGED <<job, own, peer, got>>
    BY <1>3
  <2>2. /\ pc'[p] = "use" /\ \A q \in Procs \ {p} : pc'[q] = pc[q]
        /\ pc' \in [Procs -> {"idle", "fork", "bind", "accept", "read", "wait", "use"}]
    BY <1>1, <2>1 DEF Goto, Control
  <2>3. Control'
    BY <1>1, <2>1, <2>2 DEF Control
  <2>4. Calm(p) /\ \A s \in Senders : Kept(s) /\ \A t \in Tokens : Queued(s, t)' <=> Queued(s, t)
    BY <1>1, <2>1, <2>2, SameSockets
  <2>5. JobOK(p)'
    BY <1>1, <2>1, <2>2 DEF CommandOK, JobOK, Plugin, Window
  <2>6. OwnOK(p)'
    BY <1>1, <2>1, <2>4 DEF CommandOK, OwnOK, Tokens
  <2>7. Fair(got[p][1]) => got[p][1].volume = job[p].volume /\ got[p][1].sent = Parts
    <3> SUFFICES ASSUME Fair(got[p][1]) PROVE got[p][1].volume = job[p].volume /\ got[p][1].sent = Parts
      OBVIOUS
    <3>1. /\ own[p] # NoSender /\ got[p][1].volume = job[p].volume
          /\ sender[own[p]].link # "none" /\ got[p][1].sent = sender[own[p]].sent
      BY <1>1 DEF CommandOK, GotOK
    <3>2. own[p] \in Senders /\ sender[own[p]].ok
      BY <1>1, <2>1, <3>1 DEF Status, Control
    <3> QED BY <3>1, <3>2 DEF Inv, SenderInv, SenderGood
  <2>8. GotOK(p)'
    BY <1>1, <2>1, <2>2, <2>7 DEF GotOK, Plugin, Window, Fair
  <2> QED BY <1>1, <2>1, <2>2, <2>3, <2>4, <2>5, <2>6, <2>8, CalmInv
          DEF CommandOK, ReadOK, Reading, WindowOK, Plugin, Window
<1> QED BY <1>2, <1>3 DEF Wait


-----------------------------------------------------------------------------
(* Steps of senders *)

\* One sender that is not gone moves on, keeps its socket and volume, and at most
\* enters the queue of its socket
Moved(s) ==
    /\ UNCHANGED <<command, listening>> /\ sender[s].pc # "gone"
    /\ sender'[s] \in Started /\ sender'[s].token = sender[s].token
    /\ sender'[s].volume = sender[s].volume /\ sender'[s].orphan = sender[s].orphan
    /\ sender[s].pc # "open" =>
         sender'[s].pc # "open" /\ (sender[s].link # "none" => sender'[s].link # "none")
    /\ SenderGood(s)'
    /\ sender' = [sender EXCEPT ![s] = sender'[s]]
    /\ queue' \in [Tokens -> Seq(Senders)]
    /\ \A r \in Senders, t \in Tokens : Queued(r, t)' =>
         Queued(r, t) \/ (r = s /\ Connected(s, t)' /\ t \in listening)

LEMMA MovedInv == ASSUME Inv, NEW s \in Senders, Moved(s) PROVE Inv'
<1>1. Control /\ sender[s] \in Started
  BY DEF Inv, Moved, SenderInv, SenderGood
<1>2. \A r \in Senders \ {s} : sender'[r] = sender[r]
  BY <1>1 DEF Control, Moved
<1>3. UNCHANGED <<pc, job, own, peer, got, listening>>
  BY DEF Moved, command
<1>4. Control'
  <2>1. sender' \in [Senders -> Started \cup Bare]
    BY <1>1 DEF Control, Moved
  <2>2. queue' \in [Tokens -> Seq(Senders)]
    BY DEF Moved
  <2> QED BY <1>1, <1>3, <2>1, <2>2 DEF Control
<1>5. ASSUME NEW r \in Senders, NEW t \in Tokens, Connected(r, t) PROVE Connected(r, t)'
  BY <1>2, <1>5 DEF Connected, Moved
<1>6. ASSUME NEW r \in Senders, sender[r].pc = "gone" PROVE sender'[r] = sender[r]
  BY <1>2, <1>6 DEF Moved
<1>7. ASSUME NEW p \in Procs PROVE CommandOK(p)'
  <2>1. CommandOK(p)
    BY DEF Inv
  <2>2. JobOK(p)'
    BY <1>3, <2>1 DEF CommandOK, JobOK, Plugin, Window
  <2>3. ReadOK(p)'
    <3>1. Token(p)' = Token(p) /\ (pc[p] = "read" => Token(p) \in Tokens)
      BY <1>1, <1>3, <2>1, TokenTyping DEF CommandOK, Token
    <3> QED BY <1>3, <1>5, <2>1, <3>1 DEF CommandOK, ReadOK, Reading
  <2>4. OwnOK(p)'
    <3> SUFFICES ASSUME NEW r \in Senders
                 PROVE  /\ own[p] = r => /\ sender'[r] \in Started /\ sender'[r].token = p
                                         /\ sender'[r].volume = job[p].volume /\ ~sender'[r].orphan
                        /\ /\ sender'[r].pc # "gone" \/ Queued(r, p)' \/ peer[p] = r
                           /\ sender'[r].token = p /\ ~sender'[r].orphan
                           => own[p] = r
      BY <1>3 DEF OwnOK
    <3>1. CASE r = s
      BY <2>1, <3>1 DEF CommandOK, OwnOK, Moved
    <3>2. CASE r # s
      <4>1. sender'[r] = sender[r] /\ (Queued(r, p)' => Queued(r, p))
        BY <1>2, <3>2 DEF Moved, Tokens
      <4> QED BY <2>1, <4>1 DEF CommandOK, OwnOK
    <3> QED BY <3>1, <3>2
  <2>5. WindowOK(p)'
    BY <1>2, <1>3, <2>1 DEF CommandOK, WindowOK, Window, Reads, Moved
  <2>6. GotOK(p)'
    <3>1. own[p] # NoSender => own[p] \in Senders
      BY <1>1 DEF Control
    <3> QED BY <1>3, <1>6, <2>1, <3>1 DEF CommandOK, GotOK, Plugin, Window
  <2> QED BY <2>2, <2>3, <2>4, <2>5, <2>6 DEF CommandOK
<1>8. ReadsInv' /\ QuietInv'
  <2>1. ReadsInv'
    BY <1>3 DEF Inv, ReadsInv, Reads
  <2>2. QuietInv'
    BY <1>3 DEF Inv, QuietInv, Reading, Token
  <2> QED BY <2>1, <2>2
<1>9. SenderInv'
  <2>1. \A r \in Senders \ {s} : SenderGood(r)'
    BY <1>2 DEF Inv, SenderInv, SenderGood
  <2> QED BY <2>1 DEF SenderInv, Moved
<1>10. QueueInv'
  <2> SUFFICES ASSUME NEW t \in Tokens, NEW r \in Senders, Queued(r, t)'
               PROVE  Connected(r, t)' /\ t \in listening'
    BY DEF QueueInv
  <2> QED BY <1>3, <1>5 DEF Moved, Inv, QueueInv
<1> QED BY <1>4, <1>7, <1>8, <1>9, <1>10 DEF Inv

\* What the steps of a sender make of its record
Opened(r) == [r EXCEPT !.pc = "send", !.link = "open"]
Tried(r) == [r EXCEPT !.tries = @ - 1]
Given(r) == [r EXCEPT !.sent = @ + 1]
Ended(r) == [r EXCEPT !.pc = "gone"]
EndedWell(r) == [r EXCEPT !.pc = "gone", !.ok = TRUE]
EndedBadly(r) == [r EXCEPT !.pc = "gone", !.ok = FALSE]

LEMMA OpenedTyping ==
    ASSUME NEW r \in Started, NEW u, u = Opened(r)
    PROVE  /\ u \in Started /\ u.token = r.token /\ u.volume = r.volume /\ u.orphan = r.orphan
           /\ u.ok = r.ok /\ u.pc = "send" /\ u.link = "open"
BY DEF Started, Opened

LEMMA TriedTyping ==
    ASSUME NEW r \in Started, NEW u, u = Tried(r), r.tries > 1
    PROVE  /\ u \in Started /\ u.token = r.token /\ u.volume = r.volume /\ u.orphan = r.orphan
           /\ u.ok = r.ok /\ u.pc = r.pc /\ u.link = r.link
BY KeyAssumption DEF Started, Tried

LEMMA GivenTyping ==
    ASSUME NEW r \in Started, NEW u, u = Given(r), r.sent < Parts
    PROVE  /\ u \in Started /\ u.token = r.token /\ u.volume = r.volume /\ u.orphan = r.orphan
           /\ u.ok = r.ok /\ u.pc = r.pc /\ u.link = r.link
BY KeyAssumption DEF Started, Given

LEMMA EndedTyping ==
    ASSUME NEW r \in Started, NEW u \in {Ended(r), EndedWell(r), EndedBadly(r)}
    PROVE  /\ u \in Started /\ u.token = r.token /\ u.volume = r.volume /\ u.orphan = r.orphan
           /\ u.sent = r.sent /\ u.pc = "gone" /\ u.link = r.link
           /\ u = Ended(r) => u.ok = r.ok
           /\ u = EndedBadly(r) => ~u.ok
<1>1. CASE u = Ended(r)
  BY <1>1 DEF Started, Ended, EndedBadly
<1>2. CASE u = EndedWell(r)
  BY <1>2 DEF Started, Ended, EndedWell, EndedBadly
<1>3. CASE u = EndedBadly(r)
  BY <1>3 DEF Started, Ended, EndedBadly
<1> QED BY <1>1, <1>2, <1>3

\* A sender that stops, with a good exit status only when it has sent the key or
\* had no connection, and one that goes on
LEMMA EndedInv ==
    ASSUME Inv, NEW s \in Senders, sender[s].pc # "gone", UNCHANGED <<command, listening, queue>>,
           NEW u, sender' = [sender EXCEPT ![s] = u],
           \/ u \in {Ended(sender[s]), EndedBadly(sender[s])}
           \/ u = EndedWell(sender[s]) /\ (sender[s].link = "none" \/ sender[s].sent = Parts)
    PROVE  Inv'
<1>1. Control /\ sender[s] \in Started /\ SenderGood(s) /\ sender'[s] = u
  BY DEF Inv, Control, SenderInv, SenderGood
<1>2. \A r \in Senders, t \in Tokens : Queued(r, t)' => Queued(r, t)
  BY DEF Queued
<1>3. /\ u \in Started /\ u.token = sender[s].token /\ u.volume = sender[s].volume
      /\ u.orphan = sender[s].orphan /\ u.sent = sender[s].sent /\ u.pc = "gone"
      /\ u.link = sender[s].link /\ (u = Ended(sender[s]) => u.ok = sender[s].ok)
      /\ (u = EndedBadly(sender[s]) => ~u.ok)
  BY <1>1, EndedTyping
<1>4. SenderGood(s)'
  BY <1>1, <1>3 DEF SenderGood
<1>5. queue' \in [Tokens -> Seq(Senders)]
  BY <1>1 DEF Control
<1> QED BY <1>1, <1>2, <1>3, <1>4, <1>5, MovedInv DEF Moved

LEMMA GoesOnInv ==
    ASSUME Inv, NEW s \in Senders, sender[s].pc # "gone", UNCHANGED <<command, listening, queue>>,
           NEW u, sender' = [sender EXCEPT ![s] = u],
           \/ u = Tried(sender[s]) /\ sender[s].tries > 1
           \/ u = Given(sender[s]) /\ sender[s].sent < Parts
    PROVE  Inv'
<1>1. Control /\ sender[s] \in Started /\ SenderGood(s) /\ sender'[s] = u
  BY DEF Inv, Control, SenderInv, SenderGood
<1>2. \A r \in Senders, t \in Tokens : Queued(r, t)' => Queued(r, t)
  BY DEF Queued
<1>3. /\ u \in Started /\ u.token = sender[s].token /\ u.volume = sender[s].volume
      /\ u.orphan = sender[s].orphan /\ u.ok = sender[s].ok /\ u.pc = sender[s].pc
      /\ u.link = sender[s].link
  BY <1>1, TriedTyping, GivenTyping
<1>4. SenderGood(s)'
  BY <1>1, <1>3 DEF SenderGood
<1>5. queue' \in [Tokens -> Seq(Senders)]
  BY <1>1 DEF Control
<1> QED BY <1>1, <1>2, <1>3, <1>4, <1>5, MovedInv DEF Moved

LEMMA ConnectInv == ASSUME Inv, NEW s \in Senders, Connect(s) PROVE Inv'
<1>1. /\ Control /\ sender[s] \in Started /\ SenderGood(s) /\ sender[s].pc = "open"
      /\ UNCHANGED <<command, listening>>
  BY DEF Inv, SenderInv, SenderGood, Connect
<1>2. PICK t \in Tokens : /\ t = sender[s].token /\ t \in listening /\ t \in Procs \cup {s}
                         /\ queue' = [queue EXCEPT ![t] = Append(queue[t], s)]
  BY <1>1, RecordTyping DEF Connect, SenderGood
<1>3. PICK u : u = Opened(sender[s]) /\ sender' = [sender EXCEPT ![s] = u]
  BY DEF Connect, Update, Opened
<1>4. sender'[s] = u
  BY <1>1, <1>3 DEF Control
<1>5. /\ u \in Started /\ u.token = sender[s].token /\ u.volume = sender[s].volume
      /\ u.orphan = sender[s].orphan /\ u.ok = sender[s].ok /\ u.pc = "send" /\ u.link = "open"
  BY <1>1, <1>3, OpenedTyping
<1>6. queue[t] \in Seq(Senders) /\ Append(queue[t], s) \in Seq(Senders)
  BY <1>1 DEF Control
<1>7. queue' \in [Tokens -> Seq(Senders)]
  BY <1>1, <1>2, <1>6 DEF Control
<1>8. Connected(s, t)'
  BY <1>2, <1>4, <1>5 DEF Connected
<1>9. ASSUME NEW r \in Senders, NEW q \in Tokens, Queued(r, q)'
      PROVE  Queued(r, q) \/ (r = s /\ q = t)
  <2>1. CASE q = t
    <3>1. queue'[t] = Append(queue[t], s)
      BY <1>1, <1>2 DEF Control
    <3>2. PICK i \in DOMAIN Append(queue[t], s) : Append(queue[t], s)[i] = r
      BY <1>9, <2>1, <3>1 DEF Queued
    <3>3. i = Len(queue[t]) + 1 \/ (i \in DOMAIN queue[t] /\ queue[t][i] = r)
      BY <1>6, <3>2
    <3> QED BY <1>6, <2>1, <3>2, <3>3 DEF Queued
  <2>2. CASE q # t
    BY <1>1, <1>2, <1>9, <2>2 DEF Control, Queued
  <2> QED BY <2>1, <2>2
<1>10. SenderGood(s)'
  BY <1>1, <1>2, <1>4, <1>5 DEF SenderGood
<1> QED BY <1>1, <1>2, <1>3, <1>4, <1>5, <1>7, <1>8, <1>9, <1>10, MovedInv DEF Moved

LEMMA SenderInvNext == ASSUME Inv, NEW s \in Senders, Sender(s) \/ Die(s) PROVE Inv'
<1>1. SenderGood(s)
  BY DEF Inv, SenderInv
<1>2. CASE Retry(s)
  <2>1. sender[s].pc = "open" /\ sender[s].link = "none" /\ UNCHANGED <<command, listening, queue>>
    BY <1>1, <1>2 DEF Retry, SenderGood
  <2>2. CASE sender[s].tries > 1 /\ sender' = [sender EXCEPT ![s] = Tried(sender[s])]
    BY <2>1, <2>2, GoesOnInv
  <2>3. CASE \/ sender' = [sender EXCEPT ![s] = EndedWell(sender[s])]
             \/ sender' = [sender EXCEPT ![s] = EndedBadly(sender[s])]
    BY <2>1, <2>3, EndedInv
  <2> QED BY <1>2, <2>2, <2>3 DEF Retry, Update, Tried, EndedWell, EndedBadly
<1>3. CASE Send(s)
  <2>1. sender[s].pc = "send" /\ sender[s].sent < Parts /\ UNCHANGED <<command, listening, queue>>
    BY <1>3 DEF Send
  <2>2. CASE sender' = [sender EXCEPT ![s] = Ended(sender[s])]
    BY <2>1, <2>2, EndedInv
  <2>3. CASE sender' = [sender EXCEPT ![s] = Given(sender[s])]
    BY <2>1, <2>3, GoesOnInv
  <2> QED BY <1>3, <2>2, <2>3 DEF Send, Update, Ended, Given
<1>4. CASE Refuse(s) \/ Die(s)
  <2>1. sender[s].pc # "gone" /\ UNCHANGED <<command, listening, queue>>
        /\ sender' = [sender EXCEPT ![s] = Ended(sender[s])]
    BY <1>4 DEF Refuse, Die, Update, Ended
  <2> QED BY <2>1, EndedInv
<1>5. CASE Leave(s)
  <2>1. sender[s].pc = "send" /\ sender[s].sent = Parts /\ UNCHANGED <<command, listening, queue>>
        /\ sender' = [sender EXCEPT ![s] = EndedWell(sender[s])]
    BY <1>5 DEF Leave, Update, EndedWell
  <2> QED BY <2>1, EndedInv
<1> QED BY <1>2, <1>3, <1>4, <1>5, ConnectInv DEF Sender

-----------------------------------------------------------------------------
(* The invariant holds *)

LEMMA InitInv == Init => Inv
<1> SUFFICES ASSUME Init PROVE Inv
  OBVIOUS
<1>1. /\ \A p \in Procs : pc[p] = "idle" /\ job[p] = NoJob /\ own[p] = NoSender
                         /\ peer[p] = NoSender /\ got[p] = <<>>
      /\ \A s \in Senders : sender[s] = Gone
      /\ \A t \in Tokens : queue[t] = <<>>
      /\ listening = {}
  BY DEF Init
<1>2. Gone \in Bare /\ Gone.pc = "gone" /\ ~Gone.ok /\ 0 \in 0 .. Parts
  BY KeyAssumption DEF Gone, Bare
<1>3. Control
  BY <1>1, <1>2 DEF Init, Control
<1>4. \A s \in Senders, t \in Tokens : ~Queued(s, t)
  BY <1>1 DEF Queued
<1>5. ASSUME NEW p \in Procs PROVE CommandOK(p)
  BY <1>1, <1>2, <1>4, KeyAssumption
     DEF CommandOK, JobOK, ReadOK, Reading, OwnOK, WindowOK, GotOK, Plugin, Window, Tokens
<1>6. ReadsInv /\ QuietInv /\ SenderInv /\ QueueInv
  BY <1>1, <1>2, <1>4 DEF ReadsInv, Reads, QuietInv, SenderInv, SenderGood, QueueInv
<1> QED BY <1>3, <1>5, <1>6 DEF Inv

LEMMA StutterInv == ASSUME Inv, UNCHANGED vars PROVE Inv'
<1>1. UNCHANGED <<pc, job, own, peer, got, listening, queue, sender>>
  BY DEF vars, command
<1>2. Control'
  BY <1>1 DEF Inv, Control
<1>3. ASSUME NEW p \in Procs PROVE CommandOK(p)'
  <2>1. CommandOK(p)
    BY DEF Inv
  <2>2. JobOK(p)' /\ WindowOK(p)' /\ GotOK(p)'
    BY <1>1, <2>1 DEF CommandOK, JobOK, WindowOK, GotOK, Plugin, Window, Reads
  <2>3. OwnOK(p)'
    BY <1>1, <2>1 DEF CommandOK, OwnOK, Queued
  <2>4. ReadOK(p)'
    BY <1>1, <2>1 DEF CommandOK, ReadOK, Reading, Token, Connected
  <2> QED BY <2>2, <2>3, <2>4 DEF CommandOK
<1>4. ReadsInv' /\ QuietInv' /\ SenderInv'
  BY <1>1 DEF Inv, ReadsInv, Reads, QuietInv, Reading, Token, SenderInv, SenderGood
<1>5. QueueInv'
  BY <1>1 DEF Inv, QueueInv, Queued, Connected
<1> QED BY <1>2, <1>3, <1>4, <1>5 DEF Inv

LEMMA NextInv == ASSUME Inv, [Next]_vars PROVE Inv'
<1>1. ASSUME NEW p \in Procs, Ask(p) \/ Fail(p) \/ Command(p) \/ Kill(p) PROVE Inv'
  <2>1. CASE Ask(p) \/ Fail(p) \/ Kill(p)
    BY <2>1, AskInv, FailInv, KillInv
  <2>2. CASE Command(p)
    BY <2>2, ForkInv, BindInv, BindFailsInv, AcceptInv, ReadInv, WaitInv, UseInv DEF Command
  <2> QED BY <1>1, <2>1, <2>2
<1>2. ASSUME NEW s \in Senders, Sender(s) \/ Die(s) PROVE Inv'
  BY <1>2, SenderInvNext
<1>3. CASE UNCHANGED vars
  BY <1>3, StutterInv
<1> QED BY <1>1, <1>2, <1>3 DEF Next

\* Inv holds in every state that Spec reaches.
THEOREM Invariance == Spec => []Inv
<1>1. Inv /\ [Next]_vars => Inv'
  BY NextInv
<1> QED BY InitInv, <1>1, PTL DEF Spec

\* Every variable keeps its type, whatever the number of commands and senders,
\* and exactly the commands that wait for a key or read one listen, each to the
\* socket it is at (zuluCryptGetKeyFromSocket()).
THEOREM Typing == Spec => []TypeOK
<1>1. ASSUME Inv PROVE TypeOK
  <2>1. Control /\ \A p \in Procs : JobOK(p) /\ ReadOK(p)
    BY <1>1 DEF Inv, CommandOK
  <2>2. listening = {Token(p) : p \in {q \in Procs : Reading(q)}}
    <3>1. ASSUME NEW t \in listening PROVE t \in {Token(p) : p \in {q \in Procs : Reading(q)}}
      <4>1. PICK p \in Procs : Reading(p) /\ Token(p) = t
        BY <1>1, <2>1 DEF Inv, QuietInv
      <4> QED BY <4>1
    <3>2. ASSUME NEW p \in Procs, Reading(p) PROVE Token(p) \in listening
      BY <2>1, <3>2 DEF ReadOK
    <3> QED BY <3>1, <3>2
  <2>3. \A p \in Procs : job[p] \in Jobs \cup {NoJob} /\ (pc[p] = "idle" <=> job[p] = NoJob)
    BY <2>1 DEF Control, JobOK
  <2>4. \A s \in Senders : SenderOK(sender[s])
    <3> SUFFICES ASSUME NEW s \in Senders PROVE SenderOK(sender[s])
      OBVIOUS
    <3>1. sender[s] \in Started \cup Bare
      BY <2>1 DEF Control
    <3> QED BY <3>1, RecordTyping DEF SenderOK
  <2> QED BY <2>1, <2>2, <2>3, <2>4 DEF TypeOK, Control
<1> QED BY <1>1, Invariance, PTL

\* zuluCryptEXEOpenVolume() goes on with nothing but the whole key of its volume
\* when a plugin gives it, and with a key of its volume when a window does, the
\* plugins that outlived a killed command excepted: for any number of commands
\* and senders that die at any step, any number of tries and of parts of a key.
THEOREM TrustedKeys == Spec => []KeyTrusted
<1>1. ASSUME Inv PROVE KeyTrusted
  <2> SUFFICES ASSUME NEW p \in Procs, pc[p] = "use", NEW i \in DOMAIN got[p], Fair(got[p][i])
               PROVE  /\ got[p][i].volume = job[p].volume
                      /\ (job[p].mode = "plugin") => got[p][i].sent = Parts
    BY DEF KeyTrusted, Fair
  <2>1. GotOK(p) /\ JobOK(p) /\ got[p] \in Seq(Messages \cup {NoKey})
    BY <1>1 DEF Inv, CommandOK, Control
  <2>2. CASE Plugin(p)
    <3>1. Len(got[p]) = 1
      BY <2>1, <2>2 DEF JobOK
    <3>2. i = 1
      BY <2>1, <3>1
    <3> QED BY <2>1, <2>2, <3>2 DEF GotOK
  <2>3. CASE Window(p)
    BY <2>1, <2>3 DEF GotOK, Window
  <2> QED BY <2>2, <2>3 DEF Plugin, Window
<1> QED BY <1>1, Invariance, PTL
=============================================================================
