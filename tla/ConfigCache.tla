----------------------------- MODULE ConfigCache -----------------------------
(***************************************************************************)
(* The lists and settings an administrator keeps, and the copies of them   *)
(* in Redis that every stage of the processor reads                        *)
(* (backend/processor/shared/config_loader.py, the admin routes stopwords, *)
(* filter-keywords, category-keywords and settings, and the keyword review *)
(* job).                                                                   *)
(*                                                                         *)
(* No write of a table invalidates a copy: POST /reload of the table does, *)
(* a key after another, and time does. Loaders run while it does.          *)
(***************************************************************************)
EXTENDS Naturals, FiniteSets

CONSTANTS
    Word,             \* keywords, those of a category with their weight, and values of a setting
    ListKey,          \* the cache keys the loaders use, of AllKeys
    Reader,           \* loads in progress at once
    MaxConfigEdits,   \* bound on the administrators' requests
    MaxConfigFaults   \* bound on the failures the loaders and the cache swallow

\* The tables, and the keys their loaders read: the locales of stopword, the
\* categories of filter_keyword, one key for category_keyword; a setting has its own.
Groups == [stopword |-> {"ko", "en"},
           filter_keyword |-> {"ad", "gambling", "adult", "obituary"},
           category_keyword |-> {"category"},
           setting |-> {"setting"}]

ConfigTable == DOMAIN Groups

AllKeys == UNION {Groups[t] : t \in ConfigTable}

ASSUME ConfigCacheAssumption ==
    /\ ListKey \subseteq AllKeys /\ IsFiniteSet(Reader)
    /\ MaxConfigEdits \in Nat /\ MaxConfigFaults \in Nat

VARIABLES
    configRows,   \* rows of the tables: the group, the word and is_active
    listCache,    \* the copies in Redis: {} or {list}
    reader,       \* the loads
    reloading,    \* keys the reload in progress has still to delete
    configUsed,   \* edits and faults so far
    held,         \* the lists the table held since the copy was last deleted
    excused       \* keys of which a load was ahead of the delete, or the delete failed

configVars == <<configRows, listCache, reader, reloading, configUsed, held, excused>>

\* What the SELECT of a key's loader finds.
ActiveWords(rows, k) == {w \in Word : \E r \in rows : r.group = k /\ r.word = w /\ r.active}

NoLoad == [pc |-> "idle"]

Row(k, w, active) == [group |-> k, word |-> w, active |-> active]

\* The seeds put in rows that apply; the tables start with at most one.
InitConfig ==
    /\ configRows \in {{}} \cup {{Row(k, w, TRUE)} : k \in ListKey, w \in Word}
    /\ listCache = [k \in ListKey |-> {}]
    /\ reader = [r \in Reader |-> NoLoad] /\ reloading = {}
    /\ configUsed = [edits |-> 0, faults |-> 0]
    /\ held = [k \in ListKey |-> {ActiveWords(configRows, k)}] /\ excused = {}

(***************************************************************************)
(* The loaders.                                                            *)
(***************************************************************************)

\* A loader answers from the cache when it can.
MissList(r, k) ==
    /\ reader[r] = NoLoad /\ listCache[k] = {}
    /\ reader' = [reader EXCEPT ![r] = [pc |-> "select", key |-> k]]
    /\ UNCHANGED <<configRows, listCache, reloading, configUsed, held, excused>>

\* Redis cannot be read: get_cached says so with a None, as for a miss.
ReadFails(r, k) ==
    /\ reader[r] = NoLoad /\ listCache[k] # {}
    /\ configUsed.faults < MaxConfigFaults
    /\ configUsed' = [configUsed EXCEPT !.faults = @ + 1]
    /\ reader' = [reader EXCEPT ![r] = [pc |-> "select", key |-> k]]
    /\ UNCHANGED <<configRows, listCache, reloading, held, excused>>

Load(r, k) == MissList(r, k) \/ ReadFails(r, k)

GetStopwords(r, k) == k \in Groups.stopword /\ Load(r, k)

GetFilterKeywords(r, k) == k \in Groups.filter_keyword /\ Load(r, k)

GetCategoryKeywords(r, k) == k \in Groups.category_keyword /\ Load(r, k)

GetSetting(r, k) == k \in Groups.setting /\ Load(r, k)

SelectList(r) ==
    /\ reader[r].pc = "select"
    /\ LET k == reader[r].key
       IN reader' = [reader EXCEPT ![r] = [pc |-> "store", key |-> k,
                                           list |-> ActiveWords(configRows, k)]]
    /\ UNCHANGED <<configRows, listCache, reloading, configUsed, held, excused>>

\* set_cached; a setting without a row is its default, which is not cached.
StoreList(r) ==
    /\ reader[r].pc = "store"
    /\ LET k == reader[r].key
       IN listCache' = IF k = "setting" /\ reader[r].list = {} THEN listCache
                       ELSE [listCache EXCEPT ![k] = {reader[r].list}]
    /\ reader' = [reader EXCEPT ![r] = NoLoad]
    /\ UNCHANGED <<configRows, reloading, configUsed, held, excused>>

\* The statement or the write to Redis fails: the loader answers with no words, or with
\* what it read, and the cache is left alone.
LoadFails(r) ==
    /\ reader[r] # NoLoad
    /\ reader' = [reader EXCEPT ![r] = NoLoad]
    /\ UNCHANGED <<configRows, listCache, reloading, configUsed, held, excused>>

\* 600 seconds after a list was stored, 300 after a setting was.
ListExpires(k) ==
    /\ listCache[k] # {}
    /\ listCache' = [listCache EXCEPT ![k] = {}]
    /\ UNCHANGED <<configRows, reader, reloading, configUsed, held, excused>>

(***************************************************************************)
(* The administrator.                                                      *)
(***************************************************************************)

AdminRequest == /\ configUsed.edits < MaxConfigEdits
                /\ configUsed' = [configUsed EXCEPT !.edits = @ + 1]

\* The tables change and the copies do not.
Edit(rows) ==
    /\ AdminRequest
    /\ configRows' = rows
    /\ held' = [k \in ListKey |-> held[k] \cup {ActiveWords(rows, k)}]
    /\ UNCHANGED <<listCache, reader, reloading, excused>>

\* A row of the same key as another is left out (ON CONFLICT DO NOTHING); the answer is
\* then a 500. A filter keyword has one category.
Clashes(k, w) ==
    \E r \in configRows :
        r.word = w /\ (r.group = k \/ {r.group, k} \subseteq Groups.filter_keyword)

CreateWord(table, k, w) ==
    /\ k \in Groups[table] /\ ~Clashes(k, w)
    /\ Edit(configRows \cup {Row(k, w, TRUE)})

CreateStopword(k, w) == CreateWord("stopword", k, w)

CreateFilterKeyword(k, w) == CreateWord("filter_keyword", k, w)

CreateCategoryKeyword(k, w) == CreateWord("category_keyword", k, w)

DeleteWord(table, r) == r.group \in Groups[table] /\ Edit(configRows \ {r})

DeleteStopword(r) == DeleteWord("stopword", r)

DeleteFilterKeyword(r) == DeleteWord("filter_keyword", r)

DeleteCategoryKeyword(r) == DeleteWord("category_keyword", r)

\* The category or is_active; a category no loader reads leaves the lists as a deletion
\* does. An approval takes a keyword in.
PatchFilterKeyword(r, k, active) ==
    /\ {r.group, k} \subseteq Groups.filter_keyword
    /\ k # r.group \/ active # r.active
    /\ Edit((configRows \ {r}) \cup {[r EXCEPT !.group = k, !.active = active]})

ApproveFilterKeyword(r) == PatchFilterKeyword(r, r.group, TRUE)

\* The weight.
PatchCategoryKeyword(r, w) ==
    /\ r.group \in Groups.category_keyword /\ w # r.word
    /\ Edit((configRows \ {r}) \cup {[r EXCEPT !.word = w]})

\* Updates both: a setting without a row gets none.
WriteSetting(w) ==
    LET found == {r \in configRows : r.group = "setting"}
    IN found # {} /\ Edit((configRows \ found) \cup {Row("setting", w, TRUE)})

UpdateSettings(w) == WriteSetting(w)

ResetSettings(default) == WriteSetting(default)

\* The lists of single categories forgotten.
InvalidatedAll(table) ==
    CASE table = "stopword" -> {"ko", "en"}
      [] table = "filter_keyword" -> {"all"}
      [] table = "category_keyword" -> {"category"}
      [] OTHER -> {}

\* invalidate_cache: the keys of a prefix. No route asks for that of a setting.
Invalidated(table) ==
    CASE table = "stopword" -> {"ko", "en"}
      [] table = "filter_keyword" -> {"ad", "gambling", "adult", "obituary", "irrelevant",
                                      "custom", "all"}
      [] table = "category_keyword" -> {"category"}
      [] OTHER -> {}

\* POST /reload of a table.
StartReload(table) ==
    /\ reloading = {} /\ AdminRequest
    /\ reloading' = ListKey \cap Groups[table]
    /\ UNCHANGED <<configRows, listCache, reader, held, excused>>

ReloadStopwords == StartReload("stopword")

ReloadFilterKeywords == StartReload("filter_keyword")

ReloadCategoryKeywords == StartReload("category_keyword")

\* A load has read the table and will store what it read.
Ahead(k) == \E r \in Reader : reader[r].pc = "store" /\ reader[r].key = k

\* The key's turn: delete_cached swallows its error, and the answer is ok all the same.
ReloadKey(k, fails) ==
    /\ k \in reloading
    /\ fails => configUsed.faults < MaxConfigFaults
    /\ configUsed' = [configUsed EXCEPT !.faults = IF fails THEN @ + 1 ELSE @]
    /\ reloading' = reloading \ {k}
    /\ listCache' = IF \E t \in ConfigTable : k \in Groups[t] /\ k \in Invalidated(t) /\ ~fails
                    THEN [listCache EXCEPT ![k] = {}] ELSE listCache
    /\ held' = [held EXCEPT ![k] = {ActiveWords(configRows, k)}]
    /\ excused' = IF fails \/ Ahead(k) THEN excused \cup {k} ELSE excused \ {k}
    /\ UNCHANGED <<configRows, reader>>

\* get_ai_config indexes the text the driver returns for a jsonb with a string, which
\* raises: its answer is always the default, whatever is stored.
Provider == "textrank"

\* run_keyword_review_job stores what a model suggests as inactive filter keywords.
ReviewKeywords(k, w) ==
    IF Provider # "textrank" /\ ~Clashes(k, w)
    THEN Edit(configRows \cup {Row(k, w, FALSE)})
    ELSE UNCHANGED configVars

NextConfig ==
    \/ \E r \in Reader : \/ \E k \in ListKey : \/ GetStopwords(r, k) \/ GetFilterKeywords(r, k)
                                                \/ GetCategoryKeywords(r, k) \/ GetSetting(r, k)
                         \/ SelectList(r) \/ StoreList(r) \/ LoadFails(r)
    \/ \E k \in ListKey : ListExpires(k) \/ \E fails \in BOOLEAN : ReloadKey(k, fails)
    \/ \E k \in ListKey, w \in Word :
          CreateStopword(k, w) \/ CreateFilterKeyword(k, w) \/ CreateCategoryKeyword(k, w)
    \/ \E k \in ListKey \cap Groups.filter_keyword, w \in Word : ReviewKeywords(k, w)
    \/ \E r \in configRows :
          \/ DeleteStopword(r) \/ DeleteFilterKeyword(r) \/ DeleteCategoryKeyword(r)
          \/ ApproveFilterKeyword(r) \/ \E w \in Word : PatchCategoryKeyword(r, w)
          \/ \E k \in ListKey, active \in BOOLEAN : PatchFilterKeyword(r, k, active)
    \/ \E w \in Word : UpdateSettings(w) \/ ResetSettings(w)
    \/ ReloadStopwords \/ ReloadFilterKeywords \/ ReloadCategoryKeywords

SpecConfig == InitConfig /\ [][NextConfig]_configVars

(***************************************************************************)
(* Properties.                                                             *)
(***************************************************************************)

\* The rows, the copies and the loads.
ConfigTypeOK ==
    /\ configRows \subseteq [group : AllKeys, word : Word, active : BOOLEAN]
    /\ \A k \in ListKey : listCache[k] \subseteq SUBSET Word /\ Cardinality(listCache[k]) <= 1
    /\ DOMAIN listCache = ListKey
    /\ reader \in [Reader -> {NoLoad} \cup [pc : {"select"}, key : ListKey]
                                      \cup [pc : {"store"}, key : ListKey, list : SUBSET Word]]
    /\ reloading \subseteq ListKey
    /\ configUsed \in [edits : 0 .. MaxConfigEdits, faults : 0 .. MaxConfigFaults]
    /\ held \in [ListKey -> SUBSET SUBSET Word] /\ excused \subseteq ListKey

\* Once a reload has deleted a key, the loaders never serve a list from before it: the
\* copy is one the table has held since. Two things excuse it, and both last until the
\* next reload at most: a load that had read the table before the delete stores what it
\* read after it, and a delete that failed is reported as done.
ReloadHoldsUnlessRaced ==
    \A k \in ListKey : listCache[k] \subseteq held[k] \/ k \in excused

=============================================================================
