------------------------------ MODULE Assistant ------------------------------
(***************************************************************************)
(* The chat of a restaurant with the assistant, its long-term memory, the  *)
(* apps that show the chat over a socket, and the insight of the day.      *)
(*                                                                         *)
(* A message is stored, answered by the language model from the messages   *)
(* list_recent_by_scope returns, and summarized into the memory.  The      *)
(* model takes seconds to minutes, so other messages arrive meanwhile.     *)
(***************************************************************************)
EXTENDS Generations

CONSTANTS
    ContextLimit,   \* messages read as context of a reply: 8
    MemoryLimit,    \* messages summarized into the memory: 12
    HydrateLimit,   \* messages translated when the chat is listed: 40
    OldMessages     \* the chat as older versions left it

ASSUME KeysAssumption == {"translation", "insight_en", "insight_it"} \subseteq Keys

(* A row of the chat is of the user, or replies to one of the user.        *)
Messages == [role: {"user", "assistant", "insight"}, reply_to: Nat, version: Nat, translated: BOOLEAN]

ASSUME MessagesAssumption == OldMessages \subseteq Seq(Messages)

VARIABLES
    chat,       \* restaurant_chat_messages in order of creation: [role, reply_to, version, translated]
    memory,     \* restaurant_chat_memories: the messages its summary was made from
    shown,      \* how much of the chat an app connected all the time shows
    insights    \* restaurant_ai_insights in order of creation: the text of each

assistantVars == <<chat, memory, shown, insights>>

AssistantInit ==
    /\ chat \in OldMessages
    /\ memory = {}
    /\ shown = Len(chat)
    /\ insights = <<>>

(* A message of a role; version counts the edits of what it answers, or,   *)
(* for a message of the user, its own.                                     *)
Row(role, m, version) == [role |-> role, reply_to |-> m, version |-> version, translated |-> TRUE]
LastOf(n, limit) == {m \in 1 .. n : n - limit < m}

-----------------------------------------------------------------------------
(* list_recent_by_scope with a limit: sorted, oldest first, and cut.       *)
RecentMessages == {m \in DOMAIN chat : m <= ContextLimit}

(* create_chat_message, from a socket (live) or not: the message of the    *)
(* user is stored at once.                                                 *)
BeginMessage(r, live) ==
    /\ chat' = Append(chat, Row("user", 0, 0))
    /\ Begin(r, [pc |-> "read_context", message |-> Len(chat'), version |-> 0, live |-> live,
                 replies |-> {"insight", "assistant"}])
    /\ UNCHANGED <<memory, shown, insights>>

(* update_chat_message: only messages of the user are edited.              *)
BeginEditMessage(r, m, live) ==
    /\ chat[m].role = "user"
    /\ Begin(r, [pc |-> "edit_message", message |-> m, version |-> 0, live |-> live,
                 replies |-> {"assistant"}])
    /\ UNCHANGED assistantVars

EditMessage(r) ==
    LET m == req[r].message IN
    /\ At(r, "edit_message")
    /\ chat' = [chat EXCEPT ![m].version = @ + 1]
    /\ Keep(r, [req[r] EXCEPT !.pc = "read_context", !.version = chat'[m].version])
    /\ UNCHANGED <<memory, shown, insights>>

(* _load_chat_generation_context.                                          *)
ReadContext(r) ==
    /\ At(r, "read_context")
    /\ Keep(r, With(req[r], [recent |-> RecentMessages, pc |-> "reply"]))
    /\ UNCHANGED assistantVars

(* Mutant: a message that has a reply of that role gets no other.          *)
InsertReplyOnce(r) ==
    /\ At(r, "reply")
    /\ \E role \in req[r].replies :
          LET left == req[r].replies \ {role}
              replied == \E m \in DOMAIN chat : chat[m].role = role /\ chat[m].reply_to = req[r].message IN
          /\ chat' = IF replied THEN chat ELSE Append(chat, Row(role, req[r].message, req[r].version))
          /\ Keep(r, [req[r] EXCEPT !.replies = left, !.pc = IF left = {} THEN "list_chat" ELSE "reply"])
    /\ UNCHANGED <<memory, shown, insights>>

(* generate_chat_reply returns a text even when the model fails; one row   *)
(* after the other, in any order, is then stored.                          *)
InsertReply(r) ==
    /\ At(r, "reply")
    /\ \E role \in req[r].replies :
          LET left == req[r].replies \ {role} IN
          /\ chat' = Append(chat, Row(role, req[r].message, req[r].version))
          /\ Keep(r, [req[r] EXCEPT !.replies = left, !.pc = IF left = {} THEN "list_chat" ELSE "reply"])
    /\ UNCHANGED <<memory, shown, insights>>

(* The whole chat is read for the answer and for the memory,               *)
ListChat(r) ==
    /\ At(r, "list_chat")
    /\ Keep(r, With(req[r], [upto |-> Len(chat), pc |-> "read_memory"]))
    /\ UNCHANGED assistantVars

(* the memory read,                                                        *)
ReadMemory(r) ==
    /\ At(r, "read_memory")
    /\ Keep(r, With(req[r], [memory |-> memory, pc |-> "write_memory"]))
    /\ UNCHANGED assistantVars

Spoken(messages) == {m \in messages : chat[m].role # "insight"}

(* Mutant: the memory is summarized from the new messages alone.           *)
WriteMemoryAnew(r) ==
    /\ At(r, "write_memory")
    /\ memory' = Spoken(LastOf(req[r].upto, MemoryLimit))
    /\ Goto(r, IF req[r].live THEN "broadcast" ELSE "answered")
    /\ UNCHANGED <<chat, shown, insights>>

(* a new one summarized from it and the last messages, and written whole.  *)
WriteMemory(r) ==
    /\ At(r, "write_memory")
    /\ memory' = req[r].memory \cup Spoken(LastOf(req[r].upto, MemoryLimit))
    /\ Goto(r, IF req[r].live THEN "broadcast" ELSE "answered")
    /\ UNCHANGED <<chat, shown, insights>>

(* _broadcast_conversation: the chat as it was listed before the memory    *)
(* was summarized.  Messages sent over HTTP are not broadcast.             *)
Broadcast(r) ==
    /\ At(r, "broadcast")
    /\ shown' = req[r].upto
    /\ Done(r)
    /\ UNCHANGED <<chat, memory, insights>>

Answered(r) ==
    /\ At(r, "answered")
    /\ Done(r)
    /\ UNCHANGED assistantVars

-----------------------------------------------------------------------------
(* list_chat_messages, which an app asks for with chat:history: the newest *)
(* messages of old versions are translated first.                          *)

Untranslated == {m \in LastOf(Len(chat), HydrateLimit) : ~chat[m].translated}

Hydrating(local, todo) ==
    IF todo = <<>> THEN [local EXCEPT !.pc = "broadcast"]
    ELSE Asking([local EXCEPT !.todo = todo], "translation", "write_translation")

BeginHistory(r) ==
    /\ Begin(r, Hydrating([pc |-> "ask", key |-> NULL, next |-> NULL, text |-> NULL, leader |-> NULL,
                           upto |-> Len(chat), todo |-> <<>>],
                          SetToSortSeq(Untranslated, <)))
    /\ UNCHANGED assistantVars

WriteTranslation(r) ==
    /\ At(r, "write_translation")
    /\ chat' = [chat EXCEPT ![Head(req[r].todo)].translated = TRUE]
    /\ Keep(r, Hydrating(req[r], Tail(req[r].todo)))
    /\ UNCHANGED <<memory, shown, insights>>

-----------------------------------------------------------------------------
(* _get_or_generate_insights: the newest insight, if there is one, is      *)
(* overwritten by what the model writes in both languages.                 *)

BeginInsight(r) ==
    /\ Begin(r, [pc |-> "ask", key |-> "insight_en", next |-> "ask_translated", text |-> NULL,
                 leader |-> NULL, newest |-> Len(insights)])
    /\ UNCHANGED assistantVars

AskTranslated(r) ==
    /\ At(r, "ask_translated")
    /\ Keep(r, Asking(req[r], "insight_it", "write_insight"))
    /\ UNCHANGED assistantVars

WriteInsight(r) ==
    LET n == req[r].newest IN
    /\ At(r, "write_insight")
    /\ insights' = IF n = 0 THEN Append(insights, req[r].text) ELSE [insights EXCEPT ![n] = req[r].text]
    /\ Done(r)
    /\ UNCHANGED <<chat, memory, shown>>

ChatArrive(r) ==
    \/ BeginHistory(r)
    \/ \E live \in BOOLEAN :
          BeginMessage(r, live) \/ \E m \in DOMAIN chat : BeginEditMessage(r, m, live)

ChatStep(r) ==
    \/ EditMessage(r) \/ ReadContext(r) \/ InsertReply(r) \/ ListChat(r) \/ ReadMemory(r)
    \/ WriteMemory(r) \/ Broadcast(r) \/ Answered(r) \/ WriteTranslation(r)

InsightStep(r) == AskTranslated(r) \/ WriteInsight(r)
=============================================================================
