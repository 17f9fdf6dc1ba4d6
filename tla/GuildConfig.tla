---------------------------- MODULE GuildConfig ----------------------------
(***************************************************************************)
(* The configuration of a guild and its caches (GuildConfigRepo.ts): the   *)
(* row, a Map in the bot's memory, a key of Valkey, and the MemoryCache    *)
(* that ValkeyFallbackWrapper.ts uses, once a call has failed, until the   *)
(* process ends.  The bot's setters write the row and then invalidate; the *)
(* API (routes/guilds.ts) writes the row and knows of no cache.            *)
(*                                                                         *)
(* One guild, one bot process.  The commands a process sends to Valkey are *)
(* executed in the order it sends them, so a GET, SET or DEL takes effect  *)
(* with the step that issues it and its answer is a later step.            *)
(***************************************************************************)
EXTENDS Integers, Sequences

CONSTANTS
  Calls,      \* the calls of getGuildConfig
  Writers,    \* the calls of the setters, of removeGuildConfig and of update
  MaxRows,    \* bound: versions of the row
  MaxFaults   \* bound: failing calls and crashes

ASSUME GuildConfigAssumption ==
  /\ MaxRows \in Nat \ {0}
  /\ MaxFaults \in Nat

VARIABLES
  rows,         \* the versions of the row: is the verification set up in it?
  memory,       \* memoryGuildConfigCache: a version, or NoValue
  cached,       \* the key in Valkey
  spare,        \* the key in the fallback MemoryCache
  useFallback,  \* of the wrapper
  reads,        \* call -> where it stands, the version in hand
  writes,       \* writer -> where it stands, the version it wrote
  invalidated,  \* for the properties: the newest version whose caches were invalidated
  exposed,      \* ... the versions whose invalidation could not reach every older copy
  faults

caches == <<memory, cached, spare, useFallback>>
ghosts == <<invalidated, exposed>>
configVars == <<rows, caches, reads, writes, ghosts, faults>>

NoValue == 0
NoRead == [stage |-> "idle", version |-> NoValue]
NoWrite == NoRead

ConfigInit ==
  /\ rows = <<TRUE>>
  /\ memory = NoValue /\ cached = NoValue /\ spare = NoValue
  /\ useFallback = FALSE
  /\ reads = [c \in Calls |-> NoRead]
  /\ writes = [w \in Writers |-> NoWrite]
  /\ invalidated = NoValue
  /\ exposed = {}
  /\ faults = 0

Fault ==
  /\ faults < MaxFaults
  /\ faults' = faults + 1

NoFault == UNCHANGED faults

-----------------------------------------------------------------------------
(* getGuildConfig.                                                         *)

Stage(c) == reads[c].stage

Holds(c, stage, version) ==
  reads' = [reads EXCEPT ![c] = [stage |-> stage, version |-> version]]

\* What a cache answered: remembered if it had the key, otherwise the row is asked.
Answered(c, version) ==
  IF version = NoValue
  THEN Holds(c, "query", NoValue) /\ UNCHANGED memory
  ELSE Holds(c, "done", version) /\ memory' = version

\* Mutant: a hit renews the key in Valkey.
HitRenews(c) ==
  /\ memory # NoValue
  /\ Holds(c, "done", memory)
  /\ cached' = IF useFallback THEN cached ELSE memory
  /\ UNCHANGED <<rows, memory, spare, useFallback, writes, ghosts, faults>>

MemoryHit(c) ==
  /\ memory # NoValue
  /\ Holds(c, "done", memory)
  /\ UNCHANGED <<rows, caches, writes, ghosts, faults>>

\* GET, or the fallback's Map.
Ask(c) ==
  /\ memory = NoValue
  /\ IF useFallback THEN Holds(c, "spare", spare) ELSE Holds(c, "asked", cached)
  /\ UNCHANGED <<rows, caches, writes, ghosts, faults>>

BeginRead(c) == MemoryHit(c) \/ Ask(c)

GetAnswers(c) ==
  /\ Stage(c) \in {"asked", "spare"}
  /\ Answered(c, reads[c].version)
  /\ UNCHANGED <<rows, cached, spare, useFallback, writes, ghosts, faults>>

\* An error, a timeout or an open circuit: the wrapper stays with its fallback.
GetFails(c) ==
  /\ Stage(c) = "asked"
  /\ Fault
  /\ useFallback' = TRUE
  /\ Answered(c, spare)
  /\ UNCHANGED <<rows, cached, spare, writes, ghosts>>

\* prisma.guildConfig.findUnique; a guild without a row is remembered as well.
QueryRow(c) ==
  /\ Stage(c) = "query"
  /\ Holds(c, "found", Len(rows))
  /\ UNCHANGED <<rows, caches, writes, ghosts, faults>>

QueryFails(c) ==
  /\ Stage(c) = "query"
  /\ Fault
  /\ Holds(c, "failed", NoValue)
  /\ UNCHANGED <<rows, caches, writes, ghosts>>

\* The Map, and SETEX.
Store(c) ==
  /\ Stage(c) = "found"
  /\ memory' = reads[c].version
  /\ \/ /\ useFallback
        /\ spare' = reads[c].version
        /\ UNCHANGED cached
        /\ Holds(c, "done", reads[c].version)
        /\ NoFault
     \/ /\ ~useFallback
        /\ cached' = reads[c].version
        /\ UNCHANGED spare
        /\ Holds(c, "done", reads[c].version)
        /\ NoFault
     \/ /\ ~useFallback
        /\ Fault
        /\ UNCHANGED <<cached, spare>>
        /\ Holds(c, "unset", reads[c].version)
  /\ UNCHANGED <<rows, useFallback, writes, ghosts>>

SetFails(c) ==
  /\ Stage(c) = "unset"
  /\ useFallback' = TRUE
  /\ spare' = reads[c].version
  /\ Holds(c, "done", reads[c].version)
  /\ UNCHANGED <<rows, memory, cached, writes, ghosts, faults>>

ReadStep(c) ==
  \/ GetAnswers(c) \/ GetFails(c) \/ QueryRow(c) \/ QueryFails(c)
  \/ Store(c) \/ SetFails(c)

-----------------------------------------------------------------------------
(* The writes.                                                             *)

NewRow ==
  /\ Len(rows) < MaxRows
  /\ \E complete \in BOOLEAN : rows' = Append(rows, complete)

\* A setter's upsert, or deleteMany.
WriteRow(w) ==
  /\ writes[w].stage = "idle"
  /\ NewRow
  /\ writes' = [writes EXCEPT ![w] = [stage |-> "written", version |-> Len(rows) + 1]]
  /\ UNCHANGED <<caches, reads, ghosts, faults>>

\* PATCH and DELETE of the API.
ApiWrites ==
  /\ NewRow
  /\ UNCHANGED <<caches, reads, writes, ghosts, faults>>

\* Copies that outlive the invalidation: in a call's hands, or in Valkey.
InHand(version) ==
  \E c \in Calls :
    /\ Stage(c) \in {"asked", "spare", "found", "unset"}
    /\ reads[c].version \in 1..(version - 1)

NotesInvalidation(w) ==
  LET version == writes[w].version IN
    /\ invalidated' = IF version > invalidated THEN version ELSE invalidated
    /\ exposed' = IF InHand(version) \/ cached' \in 1..(version - 1)
                  THEN exposed \cup {version} ELSE exposed

\* Mutant: invalidateGuildConfigCache deletes the key and not the Map's entry.
InvalidateKeyOnly(w) ==
  /\ writes[w].stage = "written"
  /\ IF useFallback THEN spare' = NoValue /\ UNCHANGED cached
                    ELSE cached' = NoValue /\ UNCHANGED spare
  /\ writes' = [writes EXCEPT ![w] = NoWrite]
  /\ NotesInvalidation(w)
  /\ UNCHANGED <<rows, memory, useFallback, reads, faults>>

\* invalidateGuildConfigCache: the Map, and DEL.
Invalidate(w) ==
  /\ writes[w].stage = "written"
  /\ memory' = NoValue
  /\ \/ /\ useFallback
        /\ spare' = NoValue
        /\ UNCHANGED cached
        /\ writes' = [writes EXCEPT ![w] = NoWrite]
        /\ NoFault
     \/ /\ ~useFallback
        /\ cached' = NoValue
        /\ UNCHANGED spare
        /\ writes' = [writes EXCEPT ![w] = NoWrite]
        /\ NoFault
     \/ /\ ~useFallback
        /\ Fault
        /\ UNCHANGED <<cached, spare>>
        /\ writes' = [writes EXCEPT ![w].stage = "refused"]
  /\ NotesInvalidation(w)
  /\ UNCHANGED <<rows, useFallback, reads>>

DelFails(w) ==
  /\ writes[w].stage = "refused"
  /\ useFallback' = TRUE
  /\ spare' = NoValue
  /\ writes' = [writes EXCEPT ![w] = NoWrite]
  /\ UNCHANGED <<rows, memory, cached, reads, ghosts, faults>>

WriteStep(w) == WriteRow(w) \/ Invalidate(w) \/ DelFails(w)

-----------------------------------------------------------------------------
(* Time, and the end of a process.                                         *)

MemoryExpires ==
  /\ memory # NoValue
  /\ memory' = NoValue
  /\ UNCHANGED <<rows, cached, spare, useFallback, reads, writes, ghosts, faults>>

KeyExpires ==
  /\ cached # NoValue
  /\ cached' = NoValue
  /\ UNCHANGED <<rows, memory, spare, useFallback, reads, writes, ghosts, faults>>

SpareExpires ==
  /\ spare # NoValue
  /\ spare' = NoValue
  /\ UNCHANGED <<rows, memory, cached, useFallback, reads, writes, ghosts, faults>>

Expire == MemoryExpires \/ KeyExpires \/ SpareExpires

\* A write whose caller dies before the invalidation is never invalidated.
ConfigCrash ==
  /\ Fault
  /\ memory' = NoValue /\ spare' = NoValue
  /\ useFallback' = FALSE
  /\ reads' = [c \in Calls |-> NoRead]
  /\ writes' = [w \in Writers |-> NoWrite]
  /\ UNCHANGED <<rows, cached, ghosts>>

\* Calls answer or fail, setters go on to their invalidation, keys expire.
ConfigFairness ==
  /\ \A c \in Calls : WF_configVars(ReadStep(c))
  /\ \A w \in Writers : WF_configVars(Invalidate(w) \/ DelFails(w))
  /\ WF_configVars(MemoryExpires) /\ WF_configVars(KeyExpires) /\ WF_configVars(SpareExpires)

-----------------------------------------------------------------------------
(* Once the writes are over the bot comes to work with the row as it is,   *)
(* although nothing tells it of the API's writes, stale copies travel from *)
(* Valkey to memory, and reads go on for ever: no copy renews another.     *)
Converges == <>[](memory = NoValue \/ memory = Len(rows))
=============================================================================
