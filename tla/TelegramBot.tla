---------------------------- MODULE TelegramBot ----------------------------
(***************************************************************************)
(* The Telegram bot (internal/telegram/bot.go, api.go): long polling with   *)
(* an offset kept in memory, one update after the other, the parts of an    *)
(* album gathered for a second and handed on by a timer, and the temporary  *)
(* files of photos.  A message is handed to the daemon's service, which     *)
(* starts or steers a turn.                                                 *)
(***************************************************************************)
EXTENDS Naturals, SequencesExt

CONSTANTS
    Chats,          \* bound: sequences of the updates that a chat brings
    MaxLives        \* bound: runs of the bot

Kinds == {"text", "photo", "album", "callback", "nothing"}

ASSUME BotAssumption ==
    /\ MaxLives \in Nat \ {0}
    /\ \A updates \in Chats : updates \in Seq([kind : Kinds, group : STRING, msg : Nat])

VARIABLES
    chat,           \* the updates of this run; an update is its position
    arrived,        \* how many of them the server has
    confirmed,      \* the server forgets the updates below
    offset,
    batch,          \* updates of the last getUpdates
    groups,         \* mediaGroups: generation and parts of an album
    flushes,        \* timers of albums, each with its generation
    handler,        \* the messages that the loop and a timer are at
    photos,         \* temporary files, by update
    retained,       \* those with a timer to remove them
    lives,
    taken,          \* history: updates looked at in this life
    over,           \* history: those of them that need nothing more
    served          \* history: how often the service got an update in this life

botVars == <<chat, arrived, confirmed, offset, batch, groups, flushes, handler, photos,
             retained, lives, taken, over, served>>
serverVars == <<chat, arrived, confirmed, lives>>

UpdateIds == DOMAIN chat
Albums == {chat[u].group : u \in {u \in UpdateIds : chat[u].kind = "album"}}
NoGroup == [generation |-> 0, messages |-> <<>>]
NoMessages == [messages |-> <<>>, todo |-> <<>>]
Handlers == {"loop", "timer"}           \* bound: timers that flush at a time

BotInit ==
    /\ chat \in Chats
    /\ arrived = 0 /\ confirmed = 1 /\ offset = 0 /\ batch = <<>>
    /\ groups = [g \in Albums |-> NoGroup] /\ flushes = {}
    /\ handler = [h \in Handlers |-> NoMessages]
    /\ photos = {} /\ retained = {} /\ lives = 1
    /\ taken = {} /\ over = {} /\ served = [u \in UpdateIds |-> 0]

HasPhoto(u) == chat[u].kind \in {"photo", "album"}

-----------------------------------------------------------------------------
(* Run.                                                                     *)

Arrives ==
    /\ arrived < Len(chat) /\ arrived' = arrived + 1
    /\ UNCHANGED <<chat, confirmed, offset, batch, groups, flushes, handler, photos, retained,
                   lives, taken, over, served>>

\* GetUpdates confirms what is below the offset, and brings the rest.
Polls ==
    /\ batch = <<>> /\ handler["loop"] = NoMessages
    /\ confirmed' = IF offset > confirmed THEN offset ELSE confirmed
    /\ confirmed' <= arrived
    /\ batch' = [i \in 1 .. arrived + 1 - confirmed' |-> confirmed' + i - 1]
    /\ UNCHANGED <<chat, arrived, offset, groups, flushes, handler, photos, retained, lives,
                   taken, over, served>>

Known(g, u) == \E i \in DOMAIN groups[g].messages : chat[groups[g].messages[i]].msg = chat[u].msg

\* enqueueMediaGroup; a message that the album has already is dropped.
enqueueMediaGroup(u) ==
    LET g == chat[u].group IN
    IF Known(g, u) THEN over' = over \cup {u} /\ UNCHANGED <<groups, flushes>>
    ELSE /\ groups' = [groups EXCEPT ![g] = [generation |-> @.generation + 1,
                                             messages |-> Append(@.messages, u)]]
         /\ flushes' = flushes \cup {<<g, groups[g].generation + 1>>}
         /\ UNCHANGED over

HandlesUpdate(u) == handler' = [handler EXCEPT !["loop"] = [messages |-> <<u>>, todo |-> <<u>>]]

\* An edited message is handled as a new one.
handleUpdate ==
    LET u == Head(batch) IN
    /\ batch # <<>> /\ handler["loop"] = NoMessages
    /\ batch' = Tail(batch)
    /\ offset' = IF u >= offset THEN u + 1 ELSE offset
    /\ taken' = taken \cup {u}
    /\ \/ chat[u].kind = "nothing" /\ over' = over \cup {u}
          /\ UNCHANGED <<groups, flushes, handler>>
       \/ chat[u].kind = "album" /\ enqueueMediaGroup(u) /\ UNCHANGED handler
       \/ chat[u].kind \in {"text", "photo", "callback"} /\ HandlesUpdate(u)
          /\ UNCHANGED <<groups, flushes, over>>
    /\ UNCHANGED <<serverVars, photos, retained, served>>

\* Only the timer of the last part finds its generation; it takes the album.
Current(g, generation) == groups[g].messages # <<>> /\ groups[g].generation = generation

\* Mutant of WithoutGroup: the album stays in the table once it is taken.
LeavesGroup(g) == [groups EXCEPT ![g].generation = @ + 1]

WithoutGroup(g) == [groups EXCEPT ![g] = NoGroup]

\* The orders in which handleMessages may take the parts: by message number.
Sorted(messages) ==
    {s \in [DOMAIN messages -> ToSet(messages)] :
       /\ ToSet(s) = ToSet(messages)
       /\ \A i, j \in DOMAIN messages : i < j => chat[s[i]].msg <= chat[s[j]].msg}

flushMediaGroup(g, generation) ==
    /\ <<g, generation>> \in flushes
    /\ flushes' = flushes \ {<<g, generation>>}
    /\ IF Current(g, generation)
       THEN /\ handler["timer"] = NoMessages
            /\ \E sorted \in Sorted(groups[g].messages) :
                 handler' = [handler EXCEPT !["timer"] = [messages |-> sorted, todo |-> sorted]]
            /\ groups' = WithoutGroup(g)
       ELSE UNCHANGED <<handler, groups>>
    /\ UNCHANGED <<serverVars, offset, batch, photos, retained, taken, over, served>>

-----------------------------------------------------------------------------
(* handleMessages.                                                          *)

BatchEnds(h) ==
    /\ handler' = [handler EXCEPT ![h] = NoMessages]
    /\ over' = over \cup ToSet(handler[h].messages)

\* downloadMessagePhotos of the next message.
Downloads(h) ==
    LET u == Head(handler[h].todo) IN
    /\ handler[h].todo # <<>>
    /\ handler' = [handler EXCEPT ![h].todo = Tail(@)]
    /\ photos' = IF HasPhoto(u) THEN photos \cup {u} ELSE photos
    /\ UNCHANGED <<serverVars, offset, batch, groups, flushes, retained, taken, over, served>>

\* The files of a call that failed.
Removed(h) == ToSet(handler[h].messages)

\* A photo cannot be had: the user is told, and all is dropped.
DownloadFails(h) ==
    /\ handler[h].todo # <<>> /\ HasPhoto(Head(handler[h].todo))
    /\ photos' = photos \ Removed(h)
    /\ BatchEnds(h)
    /\ UNCHANGED <<serverVars, offset, batch, groups, flushes, retained, taken, served>>

\* HandleMessageWithLocalImages or HandleCallback; the files of a message that
\* was taken are kept for half an hour.
Serves(h) ==
    LET all == ToSet(handler[h].messages) IN
    /\ handler[h] # NoMessages /\ handler[h].todo = <<>>
    /\ \/ /\ served' = [u \in UpdateIds |-> IF u \in all THEN served[u] + 1 ELSE served[u]]
          /\ retained' = retained \cup (all \cap photos) /\ UNCHANGED photos
       \/ photos' = photos \ Removed(h) /\ UNCHANGED <<served, retained>>
    /\ BatchEnds(h)
    /\ UNCHANGED <<serverVars, offset, batch, groups, flushes, taken>>

retentionEnds ==
    /\ \E u \in retained : retained' = retained \ {u} /\ photos' = photos \ {u}
    /\ UNCHANGED <<serverVars, offset, batch, groups, flushes, handler, taken, over, served>>

\* The process ends and starts again: albums and timers are gone, the server
\* repeats what was not confirmed.  Files of the life before are left to its
\* sweep, which removes those older than a day: they are no longer looked at.
Restarts ==
    /\ lives < MaxLives /\ lives' = lives + 1
    /\ offset' = 0 /\ batch' = <<>>
    /\ groups' = [g \in Albums |-> NoGroup] /\ flushes' = {}
    /\ handler' = [h \in Handlers |-> NoMessages]
    /\ photos' = {} /\ retained' = {}
    /\ taken' = {} /\ over' = {} /\ served' = [u \in UpdateIds |-> 0]
    /\ UNCHANGED <<chat, arrived, confirmed>>

BotNext ==
    \/ Arrives \/ Polls \/ handleUpdate
    \/ \E g \in Albums, n \in 1 .. Len(chat) : flushMediaGroup(g, n)
    \/ \E h \in Handlers : Downloads(h) \/ DownloadFails(h) \/ Serves(h)
    \/ retentionEnds \/ Restarts

BotSpec == BotInit /\ [][BotNext]_botVars

BotTypeOK ==
    /\ chat \in Chats /\ arrived \in 0 .. Len(chat) /\ lives \in 1 .. MaxLives
    /\ confirmed \in 1 .. Len(chat) + 1 /\ offset \in 0 .. Len(chat) + 1
    /\ batch \in Seq(UpdateIds)
    /\ \A g \in Albums : groups[g].generation \in Nat /\ groups[g].messages \in Seq(UpdateIds)
    /\ flushes \subseteq Albums \X (1 .. Len(chat))
    /\ handler \in [Handlers -> [messages : Seq(UpdateIds), todo : Seq(UpdateIds)]]
    /\ photos \subseteq UpdateIds /\ retained \subseteq photos
    /\ taken \subseteq UpdateIds /\ over \subseteq taken /\ served \in [UpdateIds -> Nat]

-----------------------------------------------------------------------------
(* What the bot promises within a life.                                     *)

Pending == UNION {ToSet(groups[g].messages) : g \in Albums}
AtHand == UNION {ToSet(handler[h].messages) : h \in Handlers}

\* No input reaches the service twice.
ServedOnce == \A u \in UpdateIds : served[u] <= 1

\* An update is handed on, dropped for a reason, in hand, or in an album whose
\* timer is still to fire.
NothingIsForgotten ==
    /\ taken = over \cup Pending \cup AtHand
    /\ \A g \in Albums : groups[g].messages # <<>> => <<g, groups[g].generation>> \in flushes

\* A temporary file belongs to a call that goes on or has its timer.
FilesAreRemoved == photos \subseteq retained \cup AtHand

\* Albums, timers and the loop together hand every message on once, and leave
\* no file behind.
MessagesAreServed == ServedOnce /\ NothingIsForgotten /\ FilesAreRemoved
=============================================================================
