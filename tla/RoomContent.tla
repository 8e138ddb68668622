----------------------------- MODULE RoomContent -----------------------------
(***************************************************************************)
(* What a room keeps about its messages beside the floor: edits and        *)
(* deletions, attachments, pins, votes, text channels and the search       *)
(* index.  One event row is described by five tables, each changed by the  *)
(* transaction of one command; a read that finds them disagreeing fails    *)
(* with invalid_state, and so does the command that should mend them.      *)
(* Replays of a command are RoomCommands' concern, queued inputs of a      *)
(* deleted message RoomFloor's; the members stay, and may be muted.        *)
(***************************************************************************)
EXTENDS Integers, FiniteSets, Sequences, FiniteSetsExt, SequencesExt, Functions

CONSTANTS
    CtFiles,    \* attachment ids
    CtChannels, \* ids of text channels beside the lobby
    CtTexts,    \* versions of a visible text; 0 stands for no visible text
    CtOptions,  \* options of a vote
    CtAssets,   \* MAX_RETAINED_ASSETS
    CtPins,     \* MAX_CHANNEL_MESSAGE_PINS
    CtBallots,  \* MAX_VOTE_BALLOTS_PER_POLL
    CtPage,     \* MESSAGE_SEARCH_PAGE_SIZE
    CtTtl,      \* PENDING_ATTACHMENT_TTL
    CtTime,     \* bound: how far the clock runs
    CtSeq       \* bound: events of the room

VARIABLES
    ctLog,     \* room_events: what each sequence number holds
    ctFile,    \* room_message_attachments
    ctPin,     \* room_message_pins: the pinned sequence numbers
    ctIndex,   \* room_message_search_records: sequence number -> what it finds
    ctVote,    \* room_vote_states: sequence number of the poll -> its row
    ctBallot,  \* room_vote_ballots: sequence number -> participant -> option
    ctChannel, \* each text channel: unused, open or retired
    ctMuted,   \* the muted participants
    ctNow,     \* the clock
    ctRead     \* a reader that pages through a search

ctVars == <<ctLog, ctFile, ctPin, ctIndex, ctVote, ctBallot, ctChannel, ctMuted, ctNow, ctRead>>

\* The operator, a guest, and an agent the guest owns.
Owner    == "operator"
Guest    == "guest"
Agent    == "agent"
Humans   == {Owner, Guest}
Members  == Humans \cup {Agent}

NextSeq == Len(ctLog) + 1
HasRoom   == NextSeq <= CtSeq

\* An event: a message, a vote, a message of a channel, or a record of a change.
EventOf(kind, who, where, text, files, target) ==
    [kind |-> kind, who |-> who, where |-> where, text |-> text, files |-> files,
     target |-> target, at |-> ctNow, deleted |-> FALSE]

\* The kinds of message_final; those of a ballot or of a closing show nothing.
LobbyKinds == {"message", "vote", "vote_cast", "vote_withdraw", "vote_close"}
CurrentLobby(e) == e.kind \in LobbyKinds /\ ~e.deleted
CurrentIn(e, channel) ==
    IF channel = "lobby" THEN CurrentLobby(e)
    ELSE e.kind = "channel" /\ e.where = channel /\ ~e.deleted

\* A vote shows its question, any other message its content.
VisibleText(e) == IF e.text = 0 /\ e.kind = "vote" THEN 1 ELSE e.text

------------------------
(* The search index.                                                        *)

Found(e) == [text |-> VisibleText(e), files |-> e.files]

Searchable(e) ==
    /\ CurrentLobby(e) \/ (e.kind = "channel" /\ ~e.deleted)
    /\ VisibleText(e) # 0 \/ e.files # {}

\* insert_event indexes what it inserts; replace_room_message_index what it changed.
IndexedWith(index, n, e) ==
    LET others == Restrict(index, DOMAIN index \ {n}) IN
    IF Searchable(e) THEN others @@ (n :> Found(e)) ELSE others

InsertEvent(log, index, e) ==
    /\ ctLog' = Append(log, e)
    /\ ctIndex' = IndexedWith(index, Len(log) + 1, e)

\* The rows a search for text 1 finds, newest first, and those behind a cursor.
Matching(index) == {n \in DOMAIN index : index[n].text = 1}
Newer(m, n)     == ctLog[m].at > ctLog[n].at \/ (ctLog[m].at = ctLog[n].at /\ m > n)
Behind(cursor)  == {n \in Matching(ctIndex) : cursor = 0 \/ Newer(cursor, n)}

\* What the reader saw so far must hold for the rows that matched all the time.
Staying(index) == ctRead' = [ctRead EXCEPT !.stay = @ \cap Matching(index)]

StartSearch ==
    /\ ctRead.at = "idle"
    /\ ctRead' = [at |-> "paging", cursor |-> 0, seen |-> <<>>, stay |-> Matching(ctIndex)]
    /\ UNCHANGED <<ctLog, ctFile, ctPin, ctIndex, ctVote, ctBallot, ctChannel, ctMuted, ctNow>>

\* The cursor is the place of the last row shown, not the row: it may be gone since.
NextPage ==
    /\ ctRead.at = "paging"
    /\ LET rows == SetToSortSeq(Behind(ctRead.cursor), Newer)
           page == SubSeq(rows, 1, Min({Len(rows), CtPage}))
           more == Len(rows) > CtPage
       IN  ctRead' = [ctRead EXCEPT !.seen = @ \o page,
                                    !.at = IF more THEN "paging" ELSE "done",
                                    !.cursor = IF more THEN Last(page) ELSE @]
    /\ UNCHANGED <<ctLog, ctFile, ctPin, ctIndex, ctVote, ctBallot, ctChannel, ctMuted, ctNow>>

------------------------
(* Attachments.                                                             *)

\* Who may write here now: checked again in the transaction of every write.
Writer(p) == p \in Humans \ ctMuted

NoFile == [state |-> "unused", owner |-> Owner, expires |-> 0, seq |-> 0]
Gone   == [NoFile EXCEPT !.state = "gone"]
Kept   == [a \in CtFiles |->
              IF ctFile[a].state = "pending" /\ ctFile[a].expires <= ctNow THEN Gone ELSE ctFile[a]]
Occupied(file) == {a \in CtFiles : file[a].state \in {"pending", "bound"}}

\* An upload is checked, prepared and then stored under authority checked again;
\* expired uploads make room first, in the same transaction.
Upload(p, a) ==
    /\ Writer(p)
    /\ ctFile[a].state = "unused"
    /\ Cardinality(Occupied(Kept)) < CtAssets
    /\ ctFile' = [Kept EXCEPT ![a] = [state |-> "pending", owner |-> p,
                                      expires |-> ctNow + CtTtl, seq |-> 0]]
    /\ UNCHANGED <<ctLog, ctPin, ctIndex, ctVote, ctBallot, ctChannel, ctMuted, ctNow, ctRead>>

\* A message takes its author's unexpired uploads and owns them from then on.
Bindable(p, a) ==
    ctFile[a].state = "pending" /\ ctFile[a].owner = p /\ ctFile[a].expires > ctNow

Bind(files, n) ==
    ctFile' = [a \in CtFiles |->
                  IF a \in files THEN [Gone EXCEPT !.state = "bound", !.seq = n] ELSE ctFile[a]]

BoundTo(n) == {a \in CtFiles : ctFile[a].state = "bound" /\ ctFile[a].seq = n}

\* A read joins the attachment with the message that owns it.
FileReads(a) ==
    LET n == ctFile[a].seq IN
    n \in DOMAIN ctLog /\ CurrentLobby(ctLog[n]) /\ a \in ctLog[n].files

------------------------
(* Messages.                                                                *)

Send(p, text, files) ==
    /\ HasRoom /\ Writer(p)
    /\ text # 0 \/ files # {}
    /\ \A a \in files : Bindable(p, a)
    /\ InsertEvent(ctLog, ctIndex, EventOf("message", p, "lobby", text, files, 0))
    /\ Bind(files, NextSeq)
    /\ UNCHANGED <<ctPin, ctVote, ctBallot, ctChannel, ctMuted, ctNow, ctRead>>

\* An agent's reply enters the log at the end of its turn.
AgentSpeaks(text) ==
    /\ HasRoom /\ text # 0
    /\ InsertEvent(ctLog, ctIndex, EventOf("message", Agent, "lobby", text, {}, 0))
    /\ UNCHANGED <<ctFile, ctPin, ctVote, ctBallot, ctChannel, ctMuted, ctNow, ctRead>>

SendChannel(p, c, text) ==
    /\ HasRoom /\ Writer(p)
    /\ ctChannel[c] = "open" /\ text # 0
    /\ InsertEvent(ctLog, ctIndex, EventOf("channel", p, c, text, {}, 0))
    /\ UNCHANGED <<ctFile, ctPin, ctVote, ctBallot, ctChannel, ctMuted, ctNow, ctRead>>

Mutable(e)   == e.kind \in {"message", "vote"} /\ ~e.deleted
MayEdit(p, e) == Mutable(e) /\ e.kind = "message" /\ e.who = p
MayDelete(p, e) ==
    Mutable(e) /\ (p = Owner \/ e.who = p \/ (e.who = Agent /\ p = Guest))

\* The index row must be there to be replaced: otherwise the command is rolled back.
Edit(p, n, text) ==
    /\ HasRoom /\ p \in Humans /\ MayEdit(p, ctLog[n])
    /\ text # 0 \/ ctLog[n].files # {}
    /\ n \in DOMAIN ctIndex
    /\ LET edited == [ctLog EXCEPT ![n].text = text]
           index  == IndexedWith(ctIndex, n, edited[n])
       IN  /\ InsertEvent(edited, index, EventOf("message_updated", p, "lobby", text, {}, n))
           /\ Staying(index)
    /\ UNCHANGED <<ctFile, ctPin, ctVote, ctBallot, ctChannel, ctMuted, ctNow>>

DeleteBound(n) ==
    /\ BoundTo(n) = ctLog[n].files
    /\ ctFile' = [a \in CtFiles |-> IF a \in BoundTo(n) THEN Gone ELSE ctFile[a]]

\* The row of the poll goes, and its ballots with it.
DeleteVoteProjection(n) ==
    /\ n \in DOMAIN ctVote
    /\ ctVote' = Restrict(ctVote, DOMAIN ctVote \ {n})
    /\ ctBallot' = Restrict(ctBallot, DOMAIN ctBallot \ {n})

\* Mutant: a deletion forgets the pin of its message.
RemovePin_not(n) == ctPin' = ctPin
\* A deletion takes the pin along.
RemovePin(n) == ctPin' = ctPin \ {n}

Delete(p, n) ==
    /\ HasRoom /\ p \in Humans /\ MayDelete(p, ctLog[n])
    /\ DeleteBound(n)
    /\ RemovePin(n)
    /\ n \in DOMAIN ctIndex
    /\ IF ctLog[n].kind = "vote" THEN DeleteVoteProjection(n) ELSE UNCHANGED <<ctVote, ctBallot>>
    /\ LET erased == [ctLog EXCEPT ![n].text = 0, ![n].files = {}, ![n].deleted = TRUE]
           index  == IndexedWith(ctIndex, n, erased[n])
       IN  /\ InsertEvent(erased, index, EventOf("message_deleted", p, "lobby", 0, {}, n))
           /\ Staying(index)
    /\ UNCHANGED <<ctChannel, ctMuted, ctNow>>

\* The text history shows for an edit: nothing once its message was deleted.
ShownText(n) ==
    IF ctLog[n].kind = "message_updated" /\ ctLog[ctLog[n].target].deleted THEN 0 ELSE ctLog[n].text

------------------------
(* Pins.                                                                    *)

ChannelOf(e) == IF e.kind = "channel" THEN e.where ELSE "lobby"
OpenChannels == {"lobby"} \cup {c \in CtChannels : ctChannel[c] = "open"}

\* What setting and reading a pin both demand of its message.
PinReads(n) ==
    /\ CurrentIn(ctLog[n], ChannelOf(ctLog[n]))
    /\ ctLog[n].text # 0 \/ ctLog[n].files # {}

PinsOf(c) == {n \in ctPin : ChannelOf(ctLog[n]) = c}

Pin(n) ==
    /\ ChannelOf(ctLog[n]) \in OpenChannels /\ PinReads(n)
    /\ Cardinality(PinsOf(ChannelOf(ctLog[n])) \ {n}) < CtPins
    /\ ctPin' = ctPin \cup {n}
    /\ UNCHANGED <<ctLog, ctFile, ctIndex, ctVote, ctBallot, ctChannel, ctMuted, ctNow, ctRead>>

Unpin(n) ==
    /\ ChannelOf(ctLog[n]) \in OpenChannels /\ PinReads(n)
    /\ ctPin' = ctPin \ {n}
    /\ UNCHANGED <<ctLog, ctFile, ctIndex, ctVote, ctBallot, ctChannel, ctMuted, ctNow, ctRead>>

------------------------
(* Channels, as a change of the room's settings opens and removes them.     *)

OpenChannel(c) ==
    /\ HasRoom /\ ctChannel[c] = "unused"
    /\ ctChannel' = [ctChannel EXCEPT ![c] = "open"]
    /\ ctLog' = Append(ctLog, EventOf("settings", Owner, "lobby", 0, {}, 0))
    /\ UNCHANGED <<ctFile, ctPin, ctIndex, ctVote, ctBallot, ctMuted, ctNow, ctRead>>

\* A removed channel takes its pins and index rows along and blanks its messages;
\* its id is never used again.
RemoveChannel(c) ==
    LET inside == {n \in DOMAIN ctLog : ctLog[n].kind = "channel" /\ ctLog[n].where = c} IN
    /\ HasRoom /\ ctChannel[c] = "open"
    /\ ctChannel' = [ctChannel EXCEPT ![c] = "retired"]
    /\ ctPin' = ctPin \ inside
    /\ ctIndex' = Restrict(ctIndex, DOMAIN ctIndex \ inside)
    /\ Staying(ctIndex')
    /\ ctLog' = Append([n \in DOMAIN ctLog |->
                           IF n \in inside THEN [ctLog[n] EXCEPT !.text = 0, !.deleted = TRUE]
                           ELSE ctLog[n]],
                       EventOf("settings", Owner, "lobby", 0, {}, 0))
    /\ UNCHANGED <<ctFile, ctVote, ctBallot, ctMuted, ctNow>>

------------------------
(* Votes.                                                                   *)

CreateVote(p, lasts, files) ==
    /\ HasRoom /\ p \notin ctMuted
    /\ p = Agent => files = {}
    /\ \A a \in files : Bindable(p, a)
    /\ InsertEvent(ctLog, ctIndex, EventOf("vote", p, "lobby", 0, files, 0))
    /\ ctVote' = ctVote @@ (NextSeq :> [tally |-> [o \in CtOptions |-> 0], total |-> 0,
                                        closed |-> 0, lasts |-> lasts])
    /\ ctBallot' = ctBallot @@ (NextSeq :> <<>>)
    /\ Bind(files, NextSeq)
    /\ UNCHANGED <<ctPin, ctChannel, ctMuted, ctNow, ctRead>>

\* load_vote: the row agrees with itself, with its poll and with the event that closed it.
VoteReads(v) ==
    /\ ctLog[v].kind = "vote" /\ ~ctLog[v].deleted
    /\ ctVote[v].total <= CtBallots
    /\ SumFunction(ctVote[v].tally) = ctVote[v].total
    /\ ctVote[v].closed # 0 =>
          /\ ctVote[v].closed \in v + 1 .. Len(ctLog)
          /\ ctLog[ctVote[v].closed].kind = "vote_close" /\ ctLog[ctVote[v].closed].target = v

RequireOpen(v) ==
    /\ ctVote[v].lasts = 0 \/ ctNow < ctLog[v].at + ctVote[v].lasts
    /\ ctVote[v].closed = 0

\* What a ballot does to the row: the old choice is taken back, the new one counted.
Recount(v, p, choice) ==
    LET had == p \in DOMAIN ctBallot[v]
        old == ctBallot[v][p]
        row == ctVote[v]
    IN  [row EXCEPT !.tally = [o \in CtOptions |->
                                  @[o] - (IF had /\ o = old THEN 1 ELSE 0) + (IF o = choice THEN 1 ELSE 0)],
                    !.total = @ + (IF had THEN 0 ELSE 1)]

Transition(kind, p, v) ==
    /\ HasRoom /\ p \notin ctMuted
    /\ v \in DOMAIN ctVote /\ VoteReads(v) /\ RequireOpen(v)
    /\ InsertEvent(ctLog, ctIndex, EventOf(kind, p, "lobby", 0, {}, v))
    /\ UNCHANGED <<ctFile, ctPin, ctChannel, ctMuted, ctNow, ctRead>>

Cast(p, v, o) ==
    /\ Transition("vote_cast", p, v)
    /\ p \notin DOMAIN ctBallot[v] => ctVote[v].total < CtBallots
    /\ ctVote' = [ctVote EXCEPT ![v] = Recount(v, p, o)]
    /\ ctBallot' = [ctBallot EXCEPT ![v] = (p :> o) @@ @]

Withdraw(p, v) ==
    /\ Transition("vote_withdraw", p, v)
    /\ IF p \in DOMAIN ctBallot[v]
       THEN /\ ctVote' = [ctVote EXCEPT ![v].tally[ctBallot[v][p]] = @ - 1, ![v].total = @ - 1]
            /\ ctBallot' = [ctBallot EXCEPT ![v] = Restrict(@, DOMAIN @ \ {p})]
       ELSE UNCHANGED <<ctVote, ctBallot>>

CloseVote(p, v) ==
    /\ p = Owner \/ ctLog[v].who = p
    /\ Transition("vote_close", p, v)
    /\ ctVote' = [ctVote EXCEPT ![v].closed = NextSeq]
    /\ UNCHANGED ctBallot

------------------------
\* A moderator mutes and unmutes a member.
SetMuted(p) ==
    /\ ctMuted' = IF p \in ctMuted THEN ctMuted \ {p} ELSE ctMuted \cup {p}
    /\ UNCHANGED <<ctLog, ctFile, ctPin, ctIndex, ctVote, ctBallot, ctChannel, ctNow, ctRead>>

Tick ==
    /\ ctNow < CtTime /\ ctNow' = ctNow + 1
    /\ UNCHANGED <<ctLog, ctFile, ctPin, ctIndex, ctVote, ctBallot, ctChannel, ctMuted, ctRead>>

ContentInit ==
    /\ ctLog = <<>> /\ ctPin = {} /\ ctIndex = <<>> /\ ctVote = <<>> /\ ctBallot = <<>>
    /\ ctFile = [a \in CtFiles |-> NoFile]
    /\ ctChannel = [c \in CtChannels |-> "unused"]
    /\ ctMuted = {} /\ ctNow = 0
    /\ ctRead = [at |-> "idle", cursor |-> 0, seen |-> <<>>, stay |-> {}]

\* The commands in three groups, each with what it can disturb.
FilesNext ==
    \/ Tick \/ SetMuted(Guest)
    \/ \E p \in Humans, a \in CtFiles : Upload(p, a)
    \/ \E p \in Humans, t \in {0, 1}, fs \in SUBSET CtFiles : Send(p, t, fs)
    \/ \E fs \in SUBSET CtFiles : CreateVote(Guest, 0, fs)
    \/ \E n \in DOMAIN ctLog :
        \/ Pin(n) \/ Unpin(n)
        \/ \E p \in Humans : Delete(p, n) \/ \E t \in {0, 1} : Edit(p, n, t)

VotesNext ==
    \/ Tick
    \/ \E p \in {Guest, Agent}, lasts \in {0, 1} : CreateVote(p, lasts, {})
    \/ \E p \in Members, v \in DOMAIN ctVote :
        Withdraw(p, v) \/ CloseVote(p, v) \/ \E o \in CtOptions : Cast(p, v, o)
    \/ \E n \in DOMAIN ctLog : Pin(n) \/ Delete(Guest, n)

SearchNext ==
    \/ StartSearch \/ NextPage
    \/ AgentSpeaks(1) \/ \E t \in CtTexts : Send(Guest, t, {})
    \/ \E c \in CtChannels : OpenChannel(c) \/ RemoveChannel(c) \/ SendChannel(Guest, c, 1)
    \/ \E n \in DOMAIN ctLog : Pin(n) \/ Delete(Guest, n) \/ \E t \in CtTexts : Edit(Guest, n, t)

------------------------
(* The five tables tell one story after every command, so that no read of a pin, an
   attachment, a poll or a search row fails and every message can still be edited and
   deleted: pins and attachments belong to messages that show them, the index holds
   exactly what a reader may find, tallies count the ballots, and nothing of a deleted
   message is shown (message_mutations.rs, message_pins.rs, message_attachments.rs,
   room_votes.rs, message_search_index.rs, transition_channels).  Whoever pages through a
   search sees every message that was there all the time exactly once, also when the
   row at the end of a page is deleted meanwhile (project_page). *)
ContentIsTrue ==
    /\ \A n \in ctPin : PinReads(n)
    /\ \A c \in CtChannels \cup {"lobby"} : Cardinality(PinsOf(c)) <= CtPins
    /\ DOMAIN ctIndex = {n \in DOMAIN ctLog : Searchable(ctLog[n])}
    /\ \A n \in DOMAIN ctIndex : ctIndex[n] = Found(ctLog[n])
    /\ \A a \in CtFiles : ctFile[a].state = "bound" => FileReads(a)
    /\ \A n \in DOMAIN ctLog : ctLog[n].files = BoundTo(n)
    /\ DOMAIN ctVote = {n \in DOMAIN ctLog : ctLog[n].kind = "vote" /\ ~ctLog[n].deleted}
    /\ \A v \in DOMAIN ctVote :
          /\ VoteReads(v)
          /\ \A o \in CtOptions :
                ctVote[v].tally[o] = Cardinality({p \in DOMAIN ctBallot[v] : ctBallot[v][p] = o})
    /\ \A n \in DOMAIN ctLog :
          ctLog[n].target # 0 /\ ctLog[ctLog[n].target].deleted => ShownText(n) = 0
    /\ IsInjective(ctRead.seen)
    /\ ctRead.at = "done" => ctRead.stay \subseteq Range(ctRead.seen)
=============================================================================
