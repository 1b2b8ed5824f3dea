----------------------------- MODULE KeyPlugin -----------------------------
(***************************************************************************)
(* How a command of zuluCrypt-cli gets a key through a local socket.  With *)
(* -G it starts a plugin, a process that connects to a socket named after  *)
(* the thread id of the command; with -f the windows of zuluCrypt-gui pass *)
(* a random path and a thread of theirs connects to it, one for each key   *)
(* of the command.  The command takes one connection and reads to its end. *)
(* A sender tries to connect a few times; the command waits without limit. *)
(***************************************************************************)
EXTENDS Integers, Sequences

CONSTANTS
    Procs,     \* commands, each with the thread id its plugin's socket is named after
    Senders,   \* plugins and threads of a window
    Volumes,   \* encrypted volumes, each with its key
    Parts,     \* buffers that the kernel cuts a key into, 1 for a passphrase
    Tries,     \* times a sender tries to connect, 10
    Modes,     \* ways to a key: "plugin" (-G), "file" (-f), "add" (-u and -n)
    Faults,    \* "kill" (a command), "die" (a sender), "nofork", "nobind"
    NoSender,  \* no child: fork() failed, or none was started
    NoKey      \* StringVoid

Messages == [volume : Volumes, sent : 0 .. Parts, orphan : BOOLEAN]

ASSUME KeyAssumption ==
    /\ Procs \cap Senders = {}
    /\ NoSender \notin Senders /\ NoKey \notin Messages
    /\ Parts \in Nat \ {0} /\ Tries \in Nat \ {0}
    /\ Modes \subseteq {"plugin", "file", "add"}
    /\ Faults \subseteq {"kill", "die", "nofork", "nobind"}

Tokens == Procs \cup Senders   \* paths of sockets; a window makes a new one for each sender

VARIABLES
    pc,         \* [Procs -> the step of the command]
    job,        \* [Procs -> its mode, its volume, the sockets it reads in turn]
    own,        \* [Procs -> the plugin it has started]
    peer,       \* [Procs -> the sender whose connection it has accepted]
    got,        \* [Procs -> the keys it has, in turn]
    listening,  \* the sockets bound and listened to
    queue,      \* [Tokens -> connections not yet accepted]
    sender      \* [Senders -> the state of a plugin or thread]

command == <<pc, job, own, peer, got>>
vars == <<command, listening, queue, sender>>

NoJob == [mode |-> "none"]
Jobs == [mode : Modes, volume : Volumes, tokens : Seq(Tokens)]

\* link: "reset" once the command's end of the connection is closed;
\* orphan: the command that started it was killed; ok: it exits with 0
Gone == [pc |-> "gone", link |-> "none", orphan |-> FALSE, ok |-> FALSE, sent |-> 0]

Token(p) == job[p].tokens[Len(got[p]) + 1]

\* Process ids and paths are used again when nothing refers to them any more
Free == {s \in Senders :
           /\ sender[s].pc = "gone"
           /\ \A p \in Procs : s # own[p] /\ s # peer[p]
           /\ \A p \in Procs : pc[p] # "idle" => \A i \in DOMAIN job[p].tokens : s # job[p].tokens[i]
           /\ \A t \in Tokens : \A i \in DOMAIN queue[t] : s # queue[t][i]}

New(t, v) == [pc |-> "open", token |-> t, volume |-> v, tries |-> Tries, sent |-> 0,
              link |-> "none", orphan |-> FALSE, ok |-> FALSE]

Init ==
    /\ pc = [p \in Procs |-> "idle"]
    /\ job = [p \in Procs |-> NoJob]
    /\ own = [p \in Procs |-> NoSender]
    /\ peer = [p \in Procs |-> NoSender]
    /\ got = [p \in Procs |-> <<>>]
    /\ listening = {}
    /\ queue = [t \in Tokens |-> <<>>]
    /\ sender = [s \in Senders |-> Gone]

Goto(p, l) == pc' = [pc EXCEPT ![p] = l]
Exit(p) ==
    /\ Goto(p, "idle")
    /\ job' = [job EXCEPT ![p] = NoJob]
    /\ own' = [own EXCEPT ![p] = NoSender]
    /\ peer' = [peer EXCEPT ![p] = NoSender]
    /\ got' = [got EXCEPT ![p] = <<>>]

-----------------------------------------------------------------------------
\* open -G: the plugin gets the name of the socket when it is started
AskPlugin(p, v) ==
    /\ pc[p] = "idle" /\ "plugin" \in Modes
    /\ job' = [job EXCEPT ![p] = [mode |-> "plugin", volume |-> v, tokens |-> <<p>>]]
    /\ Goto(p, "fork")
    /\ UNCHANGED <<own, peer, got, listening, queue, sender>>

\* A window starts the threads that send and then the command that reads
AskWindow(p, v, mode, ss) ==
    /\ pc[p] = "idle" /\ mode \in Modes
    /\ job' = [job EXCEPT ![p] = [mode |-> mode, volume |-> v, tokens |-> ss]]
    /\ sender' = [s \in Senders |-> IF \E i \in DOMAIN ss : s = ss[i] THEN New(s, v) ELSE sender[s]]
    /\ Goto(p, "bind")
    /\ UNCHANGED <<own, peer, got, listening, queue>>

Ask(p) ==
    \E v \in Volumes :
      \/ AskPlugin(p, v)
      \/ \E s \in Free : AskWindow(p, v, "file", <<s>>)
      \/ \E s1, s2 \in Free : s1 # s2 /\ AskWindow(p, v, "add", <<s1, s2>>)

\* The checks before the key is asked for fail, and the command ends
Fail(p) ==
    /\ pc[p] = "fork" \/ (pc[p] = "bind" /\ job[p].mode # "plugin" /\ got[p] = <<>>)
    /\ Exit(p)
    /\ UNCHANGED <<listening, queue, sender>>

\* ProcessStart(), whose result is not looked at
Fork(p) ==
    /\ pc[p] = "fork"
    /\ \/ \E s \in Free : /\ own' = [own EXCEPT ![p] = s]
                          /\ sender' = [sender EXCEPT ![s] = New(p, job[p].volume)]
       \/ "nofork" \in Faults /\ UNCHANGED <<own, sender>>
    /\ Goto(p, "bind")
    /\ UNCHANGED <<job, peer, got, listening, queue>>

\* What is done with a key, or with none: a plugin is waited for, -f ends
\* without a key, -u and -n go on to the next socket and give what they have to
\* libcryptsetup
Take(p, key) ==
    LET last == Len(got[p]) + 1 = Len(job[p].tokens) IN
    IF job[p].mode = "file" /\ key = NoKey THEN Exit(p)
    ELSE /\ got' = [got EXCEPT ![p] = Append(@, key)]
         /\ peer' = [peer EXCEPT ![p] = NoSender]
         /\ Goto(p, IF job[p].mode = "plugin" THEN "wait" ELSE IF last THEN "use" ELSE "bind")
         /\ UNCHANGED <<job, own>>

\* SocketBind() removes what is at the path; then SocketListen()
Bind(p) ==
    /\ pc[p] = "bind"
    /\ listening' = listening \cup {Token(p)}
    /\ Goto(p, "accept")
    /\ UNCHANGED <<job, own, peer, got, queue, sender>>

BindFails(p) ==
    /\ pc[p] = "bind" /\ "nobind" \in Faults
    /\ Take(p, NoKey)
    /\ UNCHANGED <<listening, queue, sender>>

Accept(p) ==
    /\ pc[p] = "accept" /\ queue[Token(p)] # <<>>
    /\ peer' = [peer EXCEPT ![p] = Head(queue[Token(p)])]
    /\ queue' = [queue EXCEPT ![Token(p)] = Tail(@)]
    /\ Goto(p, "read")
    /\ UNCHANGED <<job, own, got, listening, sender>>

\* A command has a listening socket until it has read the key
Reading(p) == pc[p] \in {"accept", "read"}

\* Its sockets are closed: the one it listens to, with what is in its queue, and
\* the connection it reads from
Cut(p, s) ==
    IF s = peer[p] \/ (Reading(p) /\ \E i \in DOMAIN queue[Token(p)] : s = queue[Token(p)][i])
    THEN [sender[s] EXCEPT !.link = "reset"] ELSE sender[s]
CloseSockets(p) ==
    IF Reading(p)
    THEN /\ listening' = listening \ {Token(p)}
         /\ queue' = [queue EXCEPT ![Token(p)] = <<>>]
    ELSE UNCHANGED <<listening, queue>>

\* mutant: only an end that the sender means ends the key
EndMeant(s) == sender[s].pc = "gone" /\ sender[s].ok

\* End of file: the kernel closes what a process had open, however it ends
EndOfFile(s) == sender[s].pc = "gone"

\* SocketGetData_1() reads to the end of file
Read(p) ==
    LET s == sender[peer[p]] IN
    /\ pc[p] = "read" /\ EndOfFile(peer[p])
    /\ Take(p, [volume |-> s.volume, sent |-> s.sent, orphan |-> s.orphan])
    /\ CloseSockets(p) /\ sender' = [r \in Senders |-> Cut(p, r)]

\* mutant: the key is taken whatever the plugin's exit status is
AnyStatus(p) == {TRUE}

\* Did the plugin exit with 0; without a child waitpid() does not set the status
Status(p) == IF own[p] = NoSender THEN BOOLEAN ELSE {sender[own[p]].ok}

\* ProcessWaitUntilFinished(), and the key is refused unless the status is 0
Wait(p) ==
    /\ pc[p] = "wait" /\ (own[p] # NoSender => sender[own[p]].pc = "gone")
    /\ \E ok \in Status(p) :
         IF ok /\ got[p][1] # NoKey
         THEN Goto(p, "use") /\ UNCHANGED <<job, own, peer, got>>
         ELSE Exit(p)
    /\ UNCHANGED <<listening, queue, sender>>

\* The volume is opened, or the key added; the command ends
Use(p) ==
    /\ pc[p] = "use"
    /\ Exit(p)
    /\ UNCHANGED <<listening, queue, sender>>

\* A command is killed; its plugin lives on, the path stays and is not listened to
Kill(p) ==
    /\ "kill" \in Faults /\ pc[p] # "idle"
    /\ CloseSockets(p)
    /\ sender' = [s \in Senders |-> IF s = own[p] THEN [Cut(p, s) EXCEPT !.orphan = TRUE]
                                    ELSE Cut(p, s)]
    /\ Exit(p)

-----------------------------------------------------------------------------
Update(s, record) == sender' = [sender EXCEPT ![s] = record]

\* zuluCryptPluginManagerOpenConnection(), which the kernel lets through once
\* the socket is listened to, before anybody accepts
Connect(s) ==
    LET t == sender[s].token IN
    /\ sender[s].pc = "open" /\ t \in listening
    /\ queue' = [queue EXCEPT ![t] = Append(@, s)]
    /\ Update(s, [sender[s] EXCEPT !.pc = "send", !.link = "open"])
    /\ UNCHANGED <<command, listening>>

\* It sleeps for a second, or has had its tries; the plugins differ in what
\* they exit with when they have no connection
Retry(s) ==
    /\ sender[s].pc = "open" /\ sender[s].token \notin listening
    /\ IF sender[s].tries > 1
       THEN Update(s, [sender[s] EXCEPT !.tries = @ - 1])
       ELSE \E ok \in BOOLEAN : Update(s, [sender[s] EXCEPT !.pc = "gone", !.ok = ok])
    /\ UNCHANGED <<command, listening, queue>>

\* zuluCryptPluginManagerSendKey(); a connection nobody has the other end of
\* kills the sender by SIGPIPE
Send(s) ==
    /\ sender[s].pc = "send" /\ sender[s].sent < Parts
    /\ Update(s, IF sender[s].link = "reset" THEN [sender[s] EXCEPT !.pc = "gone"]
                 ELSE [sender[s] EXCEPT !.sent = @ + 1])
    /\ UNCHANGED <<command, listening, queue>>

\* A plugin has no key for the volume, or its user none
Refuse(s) ==
    /\ sender[s].pc = "send" /\ sender[s].sent = 0 /\ sender[s].token \in Procs
    /\ Update(s, [sender[s] EXCEPT !.pc = "gone"])
    /\ UNCHANGED <<command, listening, queue>>

\* zuluCryptPluginManagerCloseConnection()
Leave(s) ==
    /\ sender[s].pc = "send" /\ sender[s].sent = Parts
    /\ Update(s, [sender[s] EXCEPT !.pc = "gone", !.ok = TRUE])
    /\ UNCHANGED <<command, listening, queue>>

\* It cannot be executed, it crashes, or somebody kills it
Die(s) ==
    /\ "die" \in Faults /\ sender[s].pc # "gone"
    /\ Update(s, [sender[s] EXCEPT !.pc = "gone"])
    /\ UNCHANGED <<command, listening, queue>>

Command(p) ==
    Fork(p) \/ Bind(p) \/ BindFails(p) \/ Accept(p) \/ Read(p) \/ Wait(p) \/ Use(p)
Sender(s) == Connect(s) \/ Retry(s) \/ Send(s) \/ Refuse(s) \/ Leave(s)
Next ==
    \/ \E p \in Procs : Ask(p) \/ Fail(p) \/ Command(p) \/ Kill(p)
    \/ \E s \in Senders : Sender(s) \/ Die(s)

\* Processes and threads run; people who are asked for a key answer in the end
Fairness ==
    /\ \A p \in Procs : WF_vars(Command(p))
    /\ \A s \in Senders : WF_vars(Sender(s))
Spec == Init /\ [][Next]_vars /\ Fairness

-----------------------------------------------------------------------------
\* Every variable keeps its type, and only commands that wait listen.
SenderOK(r) ==
    /\ r.pc \in {"open", "send", "gone"} /\ r.sent \in 0 .. Parts
    /\ r.link \in {"none", "open", "reset"} /\ {r.orphan, r.ok} \subseteq BOOLEAN
    /\ r.pc # "gone" => r.token \in Tokens /\ r.volume \in Volumes /\ r.tries \in 1 .. Tries
TypeOK ==
    /\ pc \in [Procs -> {"idle", "fork", "bind", "accept", "read", "wait", "use"}]
    /\ \A p \in Procs : job[p] \in Jobs \cup {NoJob} /\ (pc[p] = "idle" <=> job[p] = NoJob)
    /\ own \in [Procs -> Senders \cup {NoSender}] /\ peer \in [Procs -> Senders \cup {NoSender}]
    /\ \A p \in Procs : got[p] \in Seq(Messages \cup {NoKey})
    /\ listening = {Token(p) : p \in {q \in Procs : Reading(q)}}
    /\ \A t \in Tokens : queue[t] \in Seq(Senders)
    /\ \A s \in Senders : SenderOK(sender[s])

\* zuluCryptEXEOpenVolume() goes on with a key of a plugin, or with a file's,
\* only when it is the key of its volume; the plugin's also only when it is
\* whole, although a plugin that dies leaves a part of one in the socket.  What
\* breaks this is a plugin whose own command was killed, and nothing else.
KeyTrusted ==
    \A p \in Procs :
      pc[p] = "use" =>
        \A i \in DOMAIN got[p] :
          (got[p][i] # NoKey /\ ~got[p][i].orphan) =>
             /\ got[p][i].volume = job[p].volume
             /\ (job[p].mode = "plugin") => got[p][i].sent = Parts

\* A command with a connection in its queue, or accepted, gets past
\* zuluCryptGetKeyFromSocket(), also when the sender dies, and past the wait for
\* its plugin.
Linked(p) ==
    \/ pc[p] = "accept" /\ queue[Token(p)] # <<>>
    \/ pc[p] \in {"read", "wait"}
Answered == \A p \in Procs : Linked(p) ~> pc[p] \in {"idle", "bind", "use"}
=============================================================================
