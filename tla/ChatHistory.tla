---------------------------- MODULE ChatHistory ----------------------------
(***************************************************************************)
(* One conversation of ChatAgent (backend/agents/chat.py) and its chat     *)
(* WebSocket (backend/api/main.py).  The history is kept twice: in the     *)
(* agent's registry, an immutable Conversation that a request loads, copies*)
(* with its messages added and puts back; and in the database, a row per   *)
(* message.  A send_message runs in a thread, any time between load and    *)
(* update.  A streamed message runs on the event loop, alone from one      *)
(* await to the next: it stores the question in both, streams, and stores  *)
(* the answer in the database only, at the end.                            *)
(***************************************************************************)
EXTENDS Sequences, SequencesExt

CONSTANTS Sends, Streams, NoStream

ASSUME ChatHistoryAssumption == NoStream \notin Streams /\ Sends \cap Streams = {}

VARIABLES inRegistry,      \* the conversation is in the registry
          history,         \* its messages there
          talkRows,        \* its messages in the database
          talk,            \* where each request is
          loaded,          \* the history it has loaded
          loopOf,          \* the stream that has the event loop between two awaits
          overlapped       \* history: a request was loaded, or the conversation was
                           \* deleted, while another was between load and update

historyVars == <<inRegistry, history, talkRows, talk, loaded, loopOf, overlapped>>

Talks == Sends \cup Streams
TalkMessages == [of : Talks, role : {"user", "assistant"}]
Question(r) == [of |-> r, role |-> "user"]
Answer(r) == [of |-> r, role |-> "assistant"]
Underway == {r \in Talks : talk[r] = "loaded"}

HistoryTypeOK ==
    /\ inRegistry \in BOOLEAN /\ overlapped \in BOOLEAN
    /\ history \in Seq(TalkMessages) /\ talkRows \in Seq(TalkMessages)
    /\ talk \in [Talks -> {"new", "asked", "loaded", "streaming", "done", "failed"}]
    /\ loaded \in [Talks -> Seq(TalkMessages)]
    /\ loopOf \in Streams \cup {NoStream}

\* registry.create_conversation was called, or the conversation is one of the
\* database that the registry of this process does not know.
HistoryInit ==
    /\ inRegistry \in BOOLEAN /\ history = <<>> /\ talkRows = <<>>
    /\ talk = [r \in Talks |-> "new"]
    /\ loaded = [r \in Talks |-> <<>>]
    /\ loopOf = NoStream
    /\ overlapped = FALSE

TalkGoes(r, from, to) == talk[r] = from /\ talk' = [talk EXCEPT ![r] = to]

\* registry.delete_conversation
DeleteConversation ==
    /\ inRegistry
    /\ inRegistry' = FALSE /\ history' = <<>>
    /\ overlapped' = (overlapped \/ Underway # {})
    /\ UNCHANGED <<talkRows, talk, loaded, loopOf>>

\* The handler of the socket receives a message: it puts the conversation into
\* the registry if it is not there, and the question into the database.
ReceiveMessage(r) ==
    /\ loopOf = NoStream /\ loopOf' = r
    /\ TalkGoes(r, "new", "asked")
    /\ inRegistry' = TRUE /\ history' = IF inRegistry THEN history ELSE <<>>
    /\ talkRows' = Append(talkRows, Question(r))
    /\ UNCHANGED <<loaded, overlapped>>

\* Faulty variant: a conversation that is not there is taken for an empty one.
LoadAnyway(r) ==
    /\ TalkGoes(r, IF r \in Sends THEN "new" ELSE "asked", "loaded")
    /\ loaded' = [loaded EXCEPT ![r] = history]
    /\ overlapped' = (overlapped \/ Underway # {})
    /\ UNCHANGED <<inRegistry, history, talkRows, loopOf>>

\* registry.get_conversation: the first call of a send, or of a streamed
\* message's task.
LoadConversation(r) ==
    /\ inRegistry
    /\ TalkGoes(r, IF r \in Sends THEN "new" ELSE "asked", "loaded")
    /\ loaded' = [loaded EXCEPT ![r] = history]
    /\ overlapped' = (overlapped \/ Underway # {})
    /\ UNCHANGED <<inRegistry, history, talkRows, loopOf>>

\* Faulty variant: the request's messages without the copy's.
UpdateAlone(r) ==
    /\ r \in Sends
    /\ TalkGoes(r, "loaded", "done")
    /\ inRegistry' = TRUE
    /\ history' = <<Question(r), Answer(r)>>
    /\ UNCHANGED <<talkRows, loaded, loopOf, overlapped>>

\* send_message: the model has answered; registry.update_conversation with the
\* copy and two messages, whatever the registry has by now.
UpdateSend(r) ==
    /\ r \in Sends
    /\ TalkGoes(r, "loaded", "done")
    /\ inRegistry' = TRUE
    /\ history' = loaded[r] \o <<Question(r), Answer(r)>>
    /\ UNCHANGED <<talkRows, loaded, loopOf, overlapped>>

\* stream: update_conversation with the copy and the question; the handler
\* awaits the sending of the first token.
UpdateStream(r) ==
    /\ r \in Streams
    /\ TalkGoes(r, "loaded", "streaming")
    /\ inRegistry' = TRUE
    /\ history' = Append(loaded[r], Question(r))
    /\ loopOf' = NoStream
    /\ UNCHANGED <<talkRows, loaded, overlapped>>

\* Faulty variant: the answer is stored before it is sent, and stays when the
\* socket is closed over it.
StoreEarly(r) ==
    /\ TalkGoes(r, "streaming", "failed")
    /\ loopOf = NoStream
    /\ talkRows' = Append(talkRows, Answer(r))
    /\ UNCHANGED <<inRegistry, history, loaded, loopOf, overlapped>>

\* All tokens and the metadata are sent: the answer goes into the database.
StoreStreamed(r) ==
    /\ TalkGoes(r, "streaming", "done")
    /\ loopOf = NoStream
    /\ talkRows' = Append(talkRows, Answer(r))
    /\ UNCHANGED <<inRegistry, history, loaded, loopOf, overlapped>>

\* The model or the database fails, or the conversation is not known; the
\* socket of a streamed message is closed.
RequestFails(r) ==
    /\ \/ talk[r] \in {"asked", "loaded"}
       \/ talk[r] = "new" /\ r \in Sends /\ ~inRegistry
    /\ talk' = [talk EXCEPT ![r] = "failed"]
    /\ loopOf' = IF loopOf = r THEN NoStream ELSE loopOf
    /\ UNCHANGED <<inRegistry, history, talkRows, loaded, overlapped>>

\* The client goes away while its answer is streamed.
Disconnect(r) ==
    /\ TalkGoes(r, "streaming", "failed")
    /\ loopOf = NoStream
    /\ UNCHANGED <<inRegistry, history, talkRows, loaded, loopOf, overlapped>>

HistoryNext ==
    \/ DeleteConversation
    \/ \E r \in Talks : \/ LoadConversation(r) \/ UpdateSend(r) \/ UpdateStream(r)
                           \/ RequestFails(r)
    \/ \E r \in Streams : ReceiveMessage(r) \/ StoreStreamed(r) \/ Disconnect(r)

HistorySpec == HistoryInit /\ [][HistoryNext]_historyVars

---------------------------------------------------------------------------
\* Unless two requests crossed, or one crossed a deletion, the history of the
\* registry only grows, except when the conversation is deleted: no message of
\* a request that is through is lost.
MessagesStay == IsPrefix(history, history') \/ ~inRegistry' \/ overlapped

HistoryGrows == [][MessagesStay]_historyVars

\* A deleted conversation comes back only with a new message of its socket:
\* the update of a request that crossed the deletion is the one exception.
ComesBackEmpty == ~inRegistry /\ inRegistry' => history' = <<>> \/ overlapped

DeletedStaysDeleted == [][ComesBackEmpty]_historyVars

\* In the database an answer comes once, after its own question, and no answer
\* of a message whose socket was closed over it is there.
AnswersFollow ==
    \A j \in 1..Len(talkRows) : talkRows[j].role = "assistant" =>
        /\ \E i \in 1..(j - 1) : talkRows[i] = Question(talkRows[j].of)
        /\ talk[talkRows[j].of] = "done"
        /\ \A k \in 1..Len(talkRows) : talkRows[k] = talkRows[j] => k = j

\* So after each step the two stores of a conversation have what went into
\* them: the registry in its history, the database in its rows.
HistoryIsKept == [][MessagesStay /\ ComesBackEmpty /\ AnswersFollow']_historyVars

---------------------------------------------------------------------------
\* chat.py:806, "Append Messages to history (User + Assistant)": an update
\* appends to the history, and keeps what is there.
UpdateAppends == [][IsPrefix(history, history') \/ ~inRegistry']_historyVars
=============================================================================
