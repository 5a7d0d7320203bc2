----------------------------- MODULE CatMemory -----------------------------
(*****************************************************************************)
(* Chatting with one cat and what it remembers (src/app/modules/cats).       *)
(*                                                                           *)
(* A chat reads in one transaction, asks the AI provider outside any, and    *)
(* stores in a second one.  CAT_MEMORIES.created_at is now(), the time at    *)
(* which a transaction began, which may be before it waited for the player's *)
(* row: the order of the list is not the order of the commits.               *)
(* Operators named Faulty... are plausible bugs no specification uses.       *)
(*****************************************************************************)
EXTENDS Integers, FiniteSets

CONSTANTS
  Chats,         \* requests in flight
  Summaries,     \* what can be remembered; includes those of the chat policy
  SummaryOf,     \* cat_chat_memory_summary, of the categories remembered
  MemoryLimit,   \* settings.gemini_max_memory_count
  OldMemories,   \* rows there may be from the time of another limit
  Blank,         \* a summary of spaces
  MaxClock       \* bound: no transaction begins later

Remembered == {"CODING", "COMPANION"}
Direct == {"PROMPT_INJECTION", "SAFETY", "PROFESSIONAL"}
Policy == <<"PROMPT_INJECTION", "SAFETY", "PROFESSIONAL", "CODING", "COMPANION">>
Patterns == {Policy[i] : i \in 1..5}
Memory == [summary : Summaries, born : Nat]

ASSUME CatAssumption ==
  /\ SummaryOf \in [Remembered -> Summaries]
  /\ MemoryLimit \in Nat \ {0}
  /\ MaxClock \in Nat /\ Blank \notin Summaries
  /\ OldMemories \subseteq Memory
  /\ IsFiniteSet(OldMemories)
  /\ \A m, n \in OldMemories : m.born = n.born => m = n

VARIABLES
  memories,  \* cat_memories of the cat
  clock,     \* time of the last transaction that wrote or will write
  chat,      \* what each request is doing
  answer     \* status of the last answer to a request

catVars == <<memories, clock, chat, answer>>

Quiet == [pc |-> "quiet"]
Now == clock + 1

CatInit ==
  /\ memories \in SUBSET OldMemories
  /\ clock \in {0} \cup {m.born : m \in OldMemories}
  /\ \A m \in OldMemories : m.born <= clock
  /\ chat = [c \in Chats |-> Quiet]
  /\ answer = 200

-----------------------------------------------------------------------------
(* _store_bounded_cat_memory                                                 *)

\* The newest row of each summary.
Distinct(rows) ==
  {m \in rows : \A n \in rows : n.summary = m.summary => n.born <= m.born}

Newer(rows, m) == {n \in rows : n.born > m.born}
Newest(rows, k) == {m \in rows : Cardinality(Newer(rows, m)) < k}

FaultyRetained(rows) ==  \* keeps the oldest instead
  {m \in Distinct(rows) : Cardinality({n \in Distinct(rows) : n.born < m.born}) < MemoryLimit}
Retained(rows) == Newest(Distinct(rows), MemoryLimit)

IsKnown(rows, summary) == \E m \in Retained(rows) : m.summary = summary

\* A full list loses its oldest row to the new one.
StoredRows(rows, m) ==
  IF IsKnown(rows, m.summary) THEN Retained(rows)
  ELSE Newest(Retained(rows), MemoryLimit - 1) \cup {m}

-----------------------------------------------------------------------------
(* Chat                                                                      *)

\* classify_cat_chat: the first pattern of the policy that the text matches.
Category(matches) ==
  IF matches = {} THEN "GENERAL"
  ELSE Policy[CHOOSE i \in 1..5 : Policy[i] \in matches /\ \A j \in 1..(i-1) : Policy[j] \notin matches]

\* The transaction that reads, and the replies that need no provider.
OpenChat(c, matches) ==
  /\ chat[c].pc = "quiet"
  /\ IF Category(matches) \in Direct
     THEN answer' = 200 /\ UNCHANGED chat
     ELSE /\ chat' = [chat EXCEPT ![c] = [pc |-> "asked", matches |-> matches]]
          /\ UNCHANGED answer
  /\ UNCHANGED <<memories, clock>>

\* Text that is blank once normalised is UNKNOWN, which has no direct reply:
\* looking it up raises KeyError.
OpenBlankChat(c) ==
  /\ chat[c].pc = "quiet"
  /\ answer' = 500
  /\ UNCHANGED <<memories, clock, chat>>

\* The second transaction begins, and is to wait for the player's lock.
BeginStore(c, summary) ==
  /\ clock < MaxClock
  /\ clock' = Now
  /\ chat' = [chat EXCEPT ![c] = [pc |-> "storing", born |-> Now, summary |-> summary]]
  /\ UNCHANGED answer

\* The provider answered, and safe_cat_chat_output let it pass.
ProviderReplies(c) ==
  /\ chat[c].pc = "asked"
  /\ IF Category(chat[c].matches) \in Remembered
     THEN BeginStore(c, SummaryOf[Category(chat[c].matches)])
     ELSE /\ chat' = [chat EXCEPT ![c] = Quiet]
          /\ answer' = 200
          /\ UNCHANGED clock
  /\ UNCHANGED memories

\* It was unavailable or said something unusable; an error of the connection
\* that is not the provider's own is nobody's to catch.
FaultyProviderFails(c) ==  \* asks again
  /\ chat[c].pc = "asked"
  /\ answer' \in {500, 503}
  /\ UNCHANGED <<memories, clock, chat>>
ProviderFails(c) ==
  /\ chat[c].pc = "asked"
  /\ chat' = [chat EXCEPT ![c] = Quiet]
  /\ answer' \in {500, 503}
  /\ UNCHANGED <<memories, clock>>

\* add_cat_memory, up to the lock.
BeginAdd(c, summary) ==
  /\ chat[c].pc = "quiet"
  /\ IF summary = Blank THEN answer' = 422 /\ UNCHANGED <<clock, chat>>
                        ELSE BeginStore(c, summary)
  /\ UNCHANGED memories

\* Under the player's lock, and with it the commit.
StoreMemory(c) ==
  /\ chat[c].pc = "storing"
  /\ memories' = StoredRows(memories, [summary |-> chat[c].summary, born |-> chat[c].born])
  /\ answer' = 200
  /\ chat' = [chat EXCEPT ![c] = Quiet]
  /\ UNCHANGED clock

-----------------------------------------------------------------------------
(* Deletion                                                                  *)

DeleteMemory(m) ==
  /\ memories' = memories \ {m}
  /\ answer' = 204
  /\ UNCHANGED <<clock, chat>>

\* delete_all_cat_memories, and clear_cat_memories for all cats.
DeleteAllMemories ==
  /\ memories' = {}
  /\ answer' = 204
  /\ UNCHANGED <<clock, chat>>

CatNext ==
  \/ \E c \in Chats :
       \/ \E matches \in SUBSET Patterns : OpenChat(c, matches)
       \/ OpenBlankChat(c)
       \/ ProviderReplies(c) \/ ProviderFails(c) \/ StoreMemory(c)
       \/ \E summary \in Summaries \cup {Blank} : BeginAdd(c, summary)
  \/ \E m \in memories : DeleteMemory(m)
  \/ DeleteAllMemories

\* The client of the provider has a timeout, and PostgreSQL lets each waiter
\* of the player's row have it in turn.
CatFairness ==
  \A c \in Chats : WF_catVars(ProviderFails(c) \/ StoreMemory(c))

CatSpec == CatInit /\ [][CatNext]_catVars /\ CatFairness

-----------------------------------------------------------------------------
(* Properties                                                                *)

Storing == {c \in Chats : chat[c].pc = "storing"}

\* Every variable has its type; no two rows, stored or about to be, are of the
\* same transaction.
CatTypeOK ==
  /\ memories \subseteq Memory /\ IsFiniteSet(memories)
  /\ clock \in Nat
  /\ answer \in {200, 204, 422, 500, 503}
  /\ \A c \in Chats :
       \/ chat[c] = Quiet
       \/ chat[c] \in [pc : {"asked"}, matches : SUBSET Patterns]
       \/ chat[c] \in [pc : {"storing"}, born : Nat, summary : Summaries]
  /\ DOMAIN chat = Chats
  /\ \A m \in memories : m.born <= clock /\ \A n \in memories : m.born = n.born => m = n
  /\ \A c \in Storing :
       /\ chat[c].born <= clock
       /\ \A m \in memories : m.born # chat[c].born
       /\ \A d \in Storing : chat[c].born = chat[d].born => c = d

\* Whoever stores, and however many rows there were before, the list ends up
\* within the limit and without repetitions, and to make room what is lost is
\* listed before what is kept, unless the list had a newer row of the same
\* summary; anything else only deletes
\* (docs/architecture/part3-integration-contract.md:301).
StoringKeepsTheNewest ==
  [][IF \E c \in Storing : chat'[c] = Quiet
     THEN /\ Cardinality(memories') <= MemoryLimit
          /\ \A m, n \in memories' : m.summary = n.summary => m = n
          /\ memories' \ memories # {} =>
               \A gone \in memories \ memories', kept \in memories \cap memories' :
                 \/ gone.born < kept.born
                 \/ \E m \in memories : m.summary = gone.summary /\ m.born > gone.born
     ELSE memories' \subseteq memories]_catVars

\* Whatever the provider does, a chat ends.
EveryChatEnds == \A c \in Chats : chat[c].pc # "quiet" ~> chat[c].pc = "quiet"
=============================================================================
