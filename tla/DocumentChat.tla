---------------------------- MODULE DocumentChat ----------------------------
(***************************************************************************)
(* DocumentSessionManager.chat_turn (backend/intelligence/document/        *)
(* document_session.py) over one workspace: turns of several conversations *)
(* at once, a lock per conversation, the conversations and messages in the *)
(* database, and a cache of answers by query that all conversations share. *)
(* What is cached is a dict, and the cache hands out the dict itself: a    *)
(* turn that hits it writes its own conversation id into it (stamp) and    *)
(* then copies it.                                                         *)
(*                                                                         *)
(* An answer is the turn that made it.  The server can be restarted: the   *)
(* locks, the running turns and the dicts are gone, and the cache is what  *)
(* its file has.  The tables are in a file, too, where DBStorage has the   *)
(* name of one, or gone with the process: the server opens ":memory:".     *)
(* Only these turns write messages of their conversations;                 *)
(* a conversation can also be inserted, without messages, by the API.      *)
(***************************************************************************)
EXTENDS Naturals, Sequences

CONSTANTS Conversations, Queries, Turns, NoTurn,
          MaxChanges,      \* bound: changes of the workspace's documents
          MaxRestarts      \* bound: restarts of the server

ASSUME ChatAssumption == NoTurn \notin Turns /\ MaxChanges \in Nat /\ MaxRestarts \in Nat

VARIABLES step,            \* where each turn is in chat_turn
          conv, query,     \* its arguments
          hit,             \* the cached dict it found
          reply,           \* the answer it returned, and the conversation it names
          owner,           \* _session_locks: who holds each conversation's lock
          conversations,   \* the rows of the table conversations
          messages,        \* the rows of the table messages, by conversation
          cached, onDisk,  \* the answers in _local_store["cache"] and in its file
          stamp,           \* "conversation_id" in the dict made by each turn
          version,         \* the documents of the workspace
          basedOn,         \* the documents each turn searched
          inserted,        \* history: conversations inserted by the API
          forgotten,       \* history: turns from before a loss of the tables
          restarts

chatVars == <<step, conv, query, hit, reply, owner, conversations, messages, cached, onDisk,
              stamp, version, basedOn, inserted, forgotten, restarts>>

Ended == {"idle", "done", "failed"}
Places == Ended \cup {"lock", "lookup", "stamp", "copy", "history", "save", "search",
                      "user", "assistant", "store"}
Messages == [turn : Turns, role : {"user", "assistant"}]
NoReply == [answer |-> NoTurn, names |-> NoTurn]
NothingCached == [q \in Queries |-> NoTurn]

ChatTypeOK ==
    /\ step \in [Turns -> Places]
    /\ conv \in [Turns -> Conversations \cup {NoTurn}]
    /\ query \in [Turns -> Queries \cup {NoTurn}]
    /\ hit \in [Turns -> Turns \cup {NoTurn}]
    /\ reply \in [Turns -> [answer : Turns \cup {NoTurn}, names : Conversations \cup {NoTurn}]]
    /\ owner \in [Conversations -> Turns \cup {NoTurn}]
    /\ conversations \subseteq Conversations /\ inserted \subseteq Conversations
    /\ forgotten \subseteq Turns
    /\ messages \in [Conversations -> Seq(Messages)]
    /\ cached \in [Queries -> Turns \cup {NoTurn}] /\ onDisk \in [Queries -> Turns \cup {NoTurn}]
    /\ stamp \in [Turns -> Conversations \cup {NoTurn}]
    /\ version \in 0..MaxChanges /\ basedOn \in [Turns -> 0..MaxChanges]
    /\ restarts \in 0..MaxRestarts

ChatInit ==
    /\ step = [t \in Turns |-> "idle"]
    /\ conv = [t \in Turns |-> NoTurn] /\ query = [t \in Turns |-> NoTurn]
    /\ hit = [t \in Turns |-> NoTurn] /\ reply = [t \in Turns |-> NoReply]
    /\ owner = [c \in Conversations |-> NoTurn]
    /\ conversations = {} /\ inserted = {} /\ forgotten = {}
    /\ messages = [c \in Conversations |-> <<>>]
    /\ cached = NothingCached /\ onDisk = NothingCached
    /\ stamp = [t \in Turns |-> NoTurn]
    /\ version = 0 /\ basedOn = [t \in Turns |-> 0]
    /\ restarts = 0

Goes(t, from, to) == step[t] = from /\ step' = [step EXCEPT ![t] = to]

\* Leaving the "with lock" block, by a return or by an exception.
Release(t) == owner' = [owner EXCEPT ![conv[t]] = NoTurn]

\* A request arrives.
AskTurn(t, c, q) ==
    /\ Goes(t, "idle", "lock")
    /\ conv' = [conv EXCEPT ![t] = c] /\ query' = [query EXCEPT ![t] = q]
    /\ UNCHANGED <<hit, reply, owner, conversations, messages, cached, onDisk, stamp, version,
                   basedOn, inserted, forgotten, restarts>>

\* Faulty variant: no lock.
PassLock(t) ==
    /\ Goes(t, "lock", "lookup")
    /\ owner' = [owner EXCEPT ![conv[t]] = t]
    /\ UNCHANGED <<conv, query, hit, reply, conversations, messages, cached, onDisk, stamp,
                   version, basedOn, inserted, forgotten, restarts>>

\* with lock
TakeLock(t) ==
    /\ Goes(t, "lock", "lookup")
    /\ owner[conv[t]] = NoTurn
    /\ owner' = [owner EXCEPT ![conv[t]] = t]
    /\ UNCHANGED <<conv, query, hit, reply, conversations, messages, cached, onDisk, stamp,
                   version, basedOn, inserted, forgotten, restarts>>

\* cache.lookup: the dict itself ...
FindCached(t) ==
    /\ Goes(t, "lookup", "stamp")
    /\ cached[query[t]] # NoTurn
    /\ hit' = [hit EXCEPT ![t] = cached[query[t]]]
    /\ UNCHANGED <<conv, query, reply, owner, conversations, messages, cached, onDisk, stamp,
                   version, basedOn, inserted, forgotten, restarts>>

\* ... or nothing, or force_refresh.
LookPast(t) ==
    /\ Goes(t, "lookup", "history")
    /\ UNCHANGED <<conv, query, hit, reply, owner, conversations, messages, cached, onDisk, stamp,
                   version, basedOn, inserted, forgotten, restarts>>

\* Faulty variant: the dict is returned as it was cached.
KeepId(t) ==
    /\ Goes(t, "stamp", "copy")
    /\ UNCHANGED <<conv, query, hit, reply, owner, conversations, messages, cached, onDisk, stamp,
                   version, basedOn, inserted, forgotten, restarts>>

\* cached["conversation_id"] = conv_id
StampId(t) ==
    /\ Goes(t, "stamp", "copy")
    /\ stamp' = [stamp EXCEPT ![hit[t]] = conv[t]]
    /\ UNCHANGED <<conv, query, hit, reply, owner, conversations, messages, cached, onDisk,
                   version, basedOn, inserted, forgotten, restarts>>

\* return DocumentConversationResponse(**cached)
ReturnCached(t) ==
    /\ Goes(t, "copy", "done")
    /\ reply' = [reply EXCEPT ![t] = [answer |-> hit[t], names |-> stamp[hit[t]]]]
    /\ Release(t)
    /\ UNCHANGED <<conv, query, hit, conversations, messages, cached, onDisk, stamp, version,
                   basedOn, inserted, forgotten, restarts>>

\* memory.get_messages: a conversation without history is to be saved.
ReadHistory(t) ==
    /\ Goes(t, "history", IF messages[conv[t]] = <<>> THEN "save" ELSE "search")
    /\ UNCHANGED <<conv, query, hit, reply, owner, conversations, messages, cached, onDisk, stamp,
                   version, basedOn, inserted, forgotten, restarts>>

\* memory.save_conversation: an INSERT ...
SaveConversation(t) ==
    /\ Goes(t, "save", "search")
    /\ conv[t] \notin conversations
    /\ conversations' = conversations \cup {conv[t]}
    /\ UNCHANGED <<conv, query, hit, reply, owner, messages, cached, onDisk, stamp, version,
                   basedOn, inserted, forgotten, restarts>>

\* Faulty variant: an exception leaves the lock locked.
StopHere(t) ==
    /\ step' = [step EXCEPT ![t] = "failed"]
    /\ UNCHANGED <<conv, query, hit, reply, owner, conversations, messages, cached, onDisk, stamp,
                   version, basedOn, inserted, forgotten, restarts>>

\* An exception ends the turn.
Raise(t) ==
    /\ step' = [step EXCEPT ![t] = "failed"]
    /\ Release(t)
    /\ UNCHANGED <<conv, query, hit, reply, conversations, messages, cached, onDisk, stamp,
                   version, basedOn, inserted, forgotten, restarts>>

\* ... which fails on a primary key that is there.
SaveRefused(t) == step[t] = "save" /\ conv[t] \in conversations /\ Raise(t)

\* The database, the search or the generation of the answer fails.
CallFails(t) == step[t] \in {"history", "save", "search", "user", "assistant"} /\ Raise(t)

\* search_chunks and get_workspace_documents
SearchDocuments(t) ==
    /\ Goes(t, "search", "user")
    /\ basedOn' = [basedOn EXCEPT ![t] = version]
    /\ UNCHANGED <<conv, query, hit, reply, owner, conversations, messages, cached, onDisk, stamp,
                   version, inserted, forgotten, restarts>>

AddMessage(t, r) ==
    messages' = [messages EXCEPT ![conv[t]] = Append(@, [turn |-> t, role |-> r])]

\* generate_response, and memory.add_message(conv_id, "user", query)
AddQuestion(t) ==
    /\ Goes(t, "user", "assistant")
    /\ AddMessage(t, "user")
    /\ UNCHANGED <<conv, query, hit, reply, owner, conversations, cached, onDisk, stamp, version,
                   basedOn, inserted, forgotten, restarts>>

\* Faulty variant: an answer that cannot be saved is not an error.
AddAnswerOrNot(t) ==
    /\ Goes(t, "assistant", "store")
    /\ AddMessage(t, "assistant") \/ UNCHANGED messages
    /\ UNCHANGED <<conv, query, hit, reply, owner, conversations, cached, onDisk, stamp, version,
                   basedOn, inserted, forgotten, restarts>>

\* memory.add_message(conv_id, "assistant", answer)
AddAnswer(t) ==
    /\ Goes(t, "assistant", "store")
    /\ AddMessage(t, "assistant")
    /\ UNCHANGED <<conv, query, hit, reply, owner, conversations, cached, onDisk, stamp, version,
                   basedOn, inserted, forgotten, restarts>>

\* memory.log_search, cache.store and the return of the turn's own response.
\* Both write the file; one that cannot be written stays as it is, or is cut off
\* and unreadable.
StoreAnswer(t) ==
    /\ Goes(t, "store", "done")
    /\ cached' = [cached EXCEPT ![query[t]] = t]
    /\ stamp' = [stamp EXCEPT ![t] = conv[t]]
    /\ onDisk' \in {cached', cached, onDisk, NothingCached}
    /\ reply' = [reply EXCEPT ![t] = [answer |-> t, names |-> conv[t]]]
    /\ Release(t)
    /\ UNCHANGED <<conv, query, hit, conversations, messages, version, basedOn, inserted, forgotten, restarts>>

\* create_conversation by the API: a row, and no messages.
InsertConversation(c) ==
    /\ c \notin conversations
    /\ conversations' = conversations \cup {c} /\ inserted' = inserted \cup {c}
    /\ UNCHANGED <<step, conv, query, hit, reply, owner, messages, cached, onDisk, stamp, version,
                   basedOn, forgotten, restarts>>

\* A document is added, processed or deleted.
ChangeDocuments ==
    /\ version < MaxChanges
    /\ version' = version + 1
    /\ UNCHANGED <<step, conv, query, hit, reply, owner, conversations, messages, cached, onDisk,
                   stamp, basedOn, inserted, forgotten, restarts>>

\* The tables are in a file ...
KeepTables == UNCHANGED <<conversations, messages, inserted, forgotten>>

\* ... or in the memory of the process.
LoseTables ==
    /\ conversations' = {} /\ inserted' = {}
    /\ messages' = [c \in Conversations |-> <<>>]
    /\ forgotten' = forgotten \cup {t \in Turns : step[t] # "idle"}

\* The server is restarted.
RestartServer ==
    /\ restarts < MaxRestarts
    /\ restarts' = restarts + 1
    /\ step' = [t \in Turns |-> IF step[t] \in Ended THEN step[t] ELSE "failed"]
    /\ owner' = [c \in Conversations |-> NoTurn]
    /\ cached' = onDisk
    /\ KeepTables \/ LoseTables
    /\ UNCHANGED <<conv, query, hit, reply, onDisk, stamp, version, basedOn>>

TurnStep(t) ==
    \/ TakeLock(t) \/ FindCached(t) \/ LookPast(t) \/ StampId(t) \/ ReturnCached(t)
    \/ ReadHistory(t) \/ SaveConversation(t) \/ SaveRefused(t) \/ SearchDocuments(t)
    \/ AddQuestion(t) \/ AddAnswer(t) \/ StoreAnswer(t)

ChatNext ==
    \/ \E t \in Turns : \/ TurnStep(t) \/ CallFails(t)
                        \/ \E c \in Conversations, q \in Queries : AskTurn(t, c, q)
    \/ \E c \in Conversations : InsertConversation(c)
    \/ ChangeDocuments
    \/ RestartServer

\* The threads of the server run.
ChatFairness == \A t \in Turns : WF_chatVars(TurnStep(t))

ChatSpec == ChatInit /\ [][ChatNext]_chatVars /\ ChatFairness

---------------------------------------------------------------------------
\* The history of a conversation is a sequence of questions, each followed at
\* once by its own answer, however many turns of it are asked at a time: a
\* question stays without answer only when its turn failed, or while it runs.
HistoryIsPaired ==
    \A c \in Conversations : \A i \in 1..Len(messages[c]) :
        LET m == messages[c][i] IN
        IF m.role = "user"
        THEN \/ i < Len(messages[c]) /\ messages[c][i + 1] = [m EXCEPT !.role = "assistant"]
             \/ step[m.turn] = "failed"
             \/ i = Len(messages[c]) /\ step[m.turn] = "assistant"
        ELSE i > 1 /\ messages[c][i - 1] = [m EXCEPT !.role = "user"]

\* Two first turns of a conversation do not both insert it: a turn that finds
\* no history finds no row either, unless the API or a failed turn left one.
OneInsert ==
    \A t \in Turns :
        step[t] = "save" /\ conv[t] \in conversations =>
            \/ conv[t] \in inserted
            \/ \E u \in Turns : step[u] = "failed" /\ conv[u] = conv[t]

\* A reply names another conversation than the one it answers only if a turn
\* of that conversation hit the same cached answer.
MisaddressedOnlyByOverlap ==
    \A t \in Turns :
        reply[t].names # NoTurn /\ reply[t].names # conv[t] =>
            \E u \in Turns : hit[u] # NoTurn /\ hit[u] = hit[t] /\ conv[u] = reply[t].names

\* What the cache (or, after a restart, its file) answers was asked with this
\* query, and is in the history of the conversation that it was made for, unless
\* a restart has lost the history and kept the cache.
CachedIsInHistory ==
    \A q \in Queries, m \in Turns :
        m \in {cached[q], onDisk[q]} =>
            /\ query[m] = q
            /\ \/ m \in forgotten
               \/ \E i \in 1..Len(messages[conv[m]]) :
                      messages[conv[m]][i] = [turn |-> m, role |-> "assistant"]

\* So turns that overlap, fail or are cut off by a restart keep conversations
\* apart and whole: in the database, in the cache and in what is answered.
ConversationsAreKept ==
    HistoryIsPaired /\ OneInsert /\ MisaddressedOnlyByOverlap /\ CachedIsInHistory

\* Every turn that is asked is answered or fails, and no turn leaves its
\* conversation locked behind it.
TurnsEnd == \A t \in Turns : step[t] = "lock" ~> step[t] \in {"done", "failed"}

---------------------------------------------------------------------------
\* document_session.py:76, "Ensure conversation_id matches current request
\* context": the reply of a turn names its conversation.
ReplyNamesItsConversation ==
    \A t \in Turns : reply[t].names # NoTurn => reply[t].names = conv[t]

\* document_session.py:96, "Save conversation metadata in DB storage if newly
\* created with custom ID": save_conversation is for a conversation that is new.
SavesNewConversations == \A t \in Turns : step[t] = "save" => conv[t] \notin conversations

\* knowledge_cache.py:22, "Clears all cached queries on modifying document
\* status": with no turn running, every answer in the cache was made from the
\* documents as they are.
CacheFollowsDocuments ==
    (\A t \in Turns : step[t] \in Ended) =>
        \A q \in Queries : cached[q] # NoTurn => basedOn[cached[q]] = version
=============================================================================
