--------------------------- MODULE KeyboardProofs ---------------------------
(***************************************************************************)
(* Proofs about Keyboard, for every choice of keys and drawn keys, every   *)
(* size of the table of held keys and every duration.                      *)
(***************************************************************************)
EXTENDS Keyboard, FiniteSetTheorems, TLAPS

-----------------------------------------------------------------------------
(* The codes.                                                              *)

ActionKeys == Codes \ Contexts

LEMMA CodeNames ==
  /\ Codes = {"a", "b", "drop", "on", "f8", "f10", "left", "enter",
              "lsh", "rsh", "alpha"}
  /\ Contexts = {"lsh", "rsh", "alpha"}
  /\ ActionKeys = {"a", "b", "drop", "on", "f8", "f10", "left", "enter"}
  /\ DOMAIN PlainCode = {"A", "B", "BKSP", "ESC", "F8", "F10"}
<1>1. /\ DOMAIN PlainCode = {"A", "B", "BKSP", "ESC", "F8", "F10"}
      /\ PlainCode["A"] = "a" /\ PlainCode["B"] = "b" /\ PlainCode["BKSP"] = "drop"
      /\ PlainCode["ESC"] = "on" /\ PlainCode["F8"] = "f8" /\ PlainCode["F10"] = "f10"
  BY DEF PlainCode
<1>2. {PlainCode[k] : k \in DOMAIN PlainCode} = {"a", "b", "drop", "on", "f8", "f10"}
  BY <1>1
<1>3. Codes = {"a", "b", "drop", "on", "f8", "f10"} \union {"left", "enter"} \union Contexts
  BY <1>2, Zenon DEF Codes
<1>4. Contexts = {"lsh", "rsh", "alpha"}
  BY DEF Contexts
<1>5. Codes = {"a", "b", "drop", "on", "f8", "f10", "left", "enter",
              "lsh", "rsh", "alpha"}
  BY <1>3, <1>4
<1>6. ActionKeys = {"a", "b", "drop", "on", "f8", "f10", "left", "enter"}
  BY <1>4, <1>5 DEF ActionKeys
<1> QED
  BY <1>1, <1>4, <1>5, <1>6

LEMMA PlainCodes ==
  /\ \A k \in DOMAIN PlainCode : PlainCode[k] \in ActionKeys
  /\ \A k, l \in DOMAIN PlainCode : PlainCode[k] = PlainCode[l] => k = l
  /\ \A k \in DOMAIN PlainCode : PlainCode[k] \notin {"left", "enter"}
  /\ DOMAIN PlainCode \intersect
       (Shifts \union {"LEFT", "SPACE", "ENTER", "CTRL", "ALT", "CAPS", "POWER"}) = {}
  /\ NoCode \notin Codes
<1>1. /\ PlainCode["A"] = "a" /\ PlainCode["B"] = "b" /\ PlainCode["BKSP"] = "drop"
      /\ PlainCode["ESC"] = "on" /\ PlainCode["F8"] = "f8" /\ PlainCode["F10"] = "f10"
  BY DEF PlainCode
<1> QED
  BY <1>1, CodeNames DEF NoCode, Shifts

LEMMA CodesAreFinite == IsFiniteSet(Codes)
<1>1. \A x, y, z : IsFiniteSet({x, y, z})
  <2> TAKE x, y, z
  <2>1. IsFiniteSet({x}) /\ IsFiniteSet({y}) /\ IsFiniteSet({z})
    BY FS_Singleton
  <2>2. IsFiniteSet(({x} \cup {y}) \cup {z})
    BY <2>1, FS_Union
  <2>3. ({x} \cup {y}) \cup {z} = {x, y, z}
    OBVIOUS
  <2> QED
    BY <2>2, <2>3
<1> DEFINE A == {"a", "b", "drop"}  B == {"on", "f8", "f10"}
           C == {"left", "enter", "lsh"}  D == {"rsh", "alpha", "lsh"}
<1>2. IsFiniteSet(A) /\ IsFiniteSet(B) /\ IsFiniteSet(C) /\ IsFiniteSet(D)
  BY <1>1
<1>3. Codes = (A \cup B) \cup (C \cup D)
  BY CodeNames
<1> HIDE DEF A, B, C, D
<1>4. IsFiniteSet(A \cup B) /\ IsFiniteSet(C \cup D)
  BY <1>2, FS_Union
<1> QED
  BY <1>3, <1>4, FS_Union

-----------------------------------------------------------------------------
(* The table of held keys.                                                 *)

Tables(h) ==
  /\ DOMAIN h \subseteq ActionKeys
  /\ Cardinality(DOMAIN h) <= HELD_KEYS_CAPACITY
  /\ \A c \in DOMAIN h : h[c] \in HeldKeySlots(MaxHold)

LEMMA HoldTimes ==
  /\ MaxHold \in Nat /\ HP_KEY_MIN_HOLD \in 0 .. MaxHold
  /\ HP_GAME_COMMAND_MIN_HOLD \in 0 .. MaxHold
BY KeyboardAssumption DEF MaxHold

LEMMA SlotFields ==
  ASSUME NEW h, Tables(h), NEW c \in DOMAIN h
  PROVE  /\ h[c] = [left |-> h[c].left, requested |-> h[c].requested,
                    consumes |-> h[c].consumes]
         /\ h[c].left \in 0 .. MaxHold
         /\ h[c].requested \in BOOLEAN /\ h[c].consumes \in BOOLEAN
<1>1. h[c] \in HeldKeySlots(MaxHold)
  BY DEF Tables
<1> QED
  BY <1>1 DEF HeldKeySlots

LEMMA SlotOf ==
  ASSUME NEW l \in 0 .. MaxHold, NEW r \in BOOLEAN, NEW k \in BOOLEAN
  PROVE  [left |-> l, requested |-> r, consumes |-> k] \in HeldKeySlots(MaxHold)
BY DEF HeldKeySlots

LEMMA TableIsFinite ==
  ASSUME NEW h, Tables(h), NEW T, T \subseteq DOMAIN h
  PROVE  IsFiniteSet(T) /\ Cardinality(T) \in Nat /\ Cardinality(T) <= HELD_KEYS_CAPACITY
<1>1. DOMAIN h \in SUBSET Codes
  BY DEF Tables, ActionKeys
<1>2. IsFiniteSet(DOMAIN h)
  BY <1>1, CodesAreFinite, FS_Subset
<1>3. IsFiniteSet(T) /\ Cardinality(T) <= Cardinality(DOMAIN h)
  BY <1>2, FS_Subset
<1>4. Cardinality(T) \in Nat /\ Cardinality(DOMAIN h) \in Nat
  BY <1>2, <1>3, FS_CardinalityType
<1> QED
  BY <1>3, <1>4, CapacityAssumption DEF Tables

(* A press: the code is held from now on, if the table has room.           *)
AfterPress(h, code, consumes, g) ==
  /\ Tables(g)
  /\ DOMAIN g = IF Fits(h, code) THEN DOMAIN h \union {code} ELSE DOMAIN h
  /\ \A c \in DOMAIN h : /\ g[c].requested = h[c].requested
                         /\ g[c].left = h[c].left
                         /\ h[c].consumes => g[c].consumes
  /\ code \in DOMAIN g /\ consumes => g[code].consumes

LEMMA PressTable ==
  ASSUME NEW h, Tables(h), NEW code \in ActionKeys, NEW hold \in 0 .. MaxHold,
         NEW consumes \in BOOLEAN
  PROVE  AfterPress(h, code, consumes, held_keys_press(h, code, hold, consumes))
<1> DEFINE g == held_keys_press(h, code, hold, consumes)
<1>1. CASE ~Fits(h, code)
  <2>1. g = h
    BY <1>1 DEF held_keys_press
  <2>2. code \notin DOMAIN h
    BY <1>1 DEF Fits
  <2> QED
    BY <2>1, <2>2, <1>1, Zenon DEF AfterPress
<1>2. CASE Fits(h, code)
  <2>1. DOMAIN g = DOMAIN h \union {code}
    BY <1>2 DEF held_keys_press
  <2>2. \A c \in DOMAIN h : c # code => g[c] = h[c]
    BY <1>2 DEF held_keys_press
  <2>3. code \in DOMAIN h => g[code] = [h[code] EXCEPT !.consumes = @ \/ consumes]
    BY <1>2 DEF held_keys_press
  <2>4. code \notin DOMAIN h =>
          g[code] = [left |-> hold, requested |-> FALSE, consumes |-> consumes]
    BY <1>2 DEF held_keys_press
  <2>5. code \in DOMAIN h =>
          /\ g[code].left = h[code].left /\ g[code].requested = h[code].requested
          /\ g[code].consumes = (h[code].consumes \/ consumes)
          /\ g[code] = [left |-> h[code].left, requested |-> h[code].requested,
                        consumes |-> (h[code].consumes \/ consumes)]
    BY <2>3, SlotFields
  <2>6. g[code] \in HeldKeySlots(MaxHold)
    <3>1. CASE code \in DOMAIN h
      <4>1. h[code].left \in 0 .. MaxHold /\ h[code].requested \in BOOLEAN
        BY <3>1, SlotFields
      <4>2. (h[code].consumes \/ consumes) \in BOOLEAN
        OBVIOUS
      <4> QED
        BY Zenon, <2>5, <3>1, <4>1, <4>2, SlotOf
    <3>2. CASE code \notin DOMAIN h
      BY Zenon, <2>4, <3>2, SlotOf
    <3> QED
      BY <3>1, <3>2
  <2>7. Cardinality(DOMAIN g) <= HELD_KEYS_CAPACITY
    <3>1. IsFiniteSet(DOMAIN h) /\ Cardinality(DOMAIN h) \in Nat
            /\ Cardinality(DOMAIN h) <= HELD_KEYS_CAPACITY
      BY TableIsFinite
    <3>2. Cardinality(DOMAIN g) = IF code \in DOMAIN h THEN Cardinality(DOMAIN h)
                                  ELSE Cardinality(DOMAIN h) + 1
      BY <2>1, <3>1, FS_AddElement
    <3> QED
      BY <1>2, <3>1, <3>2, CapacityAssumption DEF Fits
  <2>8. Tables(g)
    BY <2>1, <2>2, <2>6, <2>7 DEF Tables
  <2>9. code \in DOMAIN g /\ consumes => g[code].consumes
    <3>1. code \notin DOMAIN h => g[code].consumes = consumes
      BY <2>4
    <3>2. code \in DOMAIN h => g[code].consumes = (h[code].consumes \/ consumes)
      BY Zenon, <2>5
    <3>3. CASE consumes = TRUE
      BY <3>1, <3>2, <3>3
    <3>4. CASE consumes = FALSE
      BY <3>4
    <3> QED
      BY <3>3, <3>4
  <2> QED
    BY <1>2, <2>1, <2>2, <2>5, <2>8, <2>9, Zenon DEF AfterPress
<1> QED
  BY <1>1, <1>2

(* A request changes the one flag.                                         *)
AfterRequest(h, code, g) ==
  /\ Tables(g)
  /\ DOMAIN g = DOMAIN h
  /\ \A c \in DOMAIN h : /\ g[c].left = h[c].left
                         /\ g[c].consumes = h[c].consumes
                         /\ h[c].requested => g[c].requested
  /\ \A c \in DOMAIN h \ {code} : g[c] = h[c]
  /\ code \in DOMAIN g => g[code].requested

LEMMA RequestTable ==
  ASSUME NEW h, Tables(h), NEW code
  PROVE  AfterRequest(h, code, held_keys_request_release(h, code))
<1> DEFINE g == held_keys_request_release(h, code)
<1>1. DOMAIN g = DOMAIN h
  BY DEF held_keys_request_release
<1>2. \A c \in DOMAIN h \ {code} : g[c] = h[c]
  BY DEF held_keys_request_release
<1>3. code \in DOMAIN h =>
        g[code] = [left |-> h[code].left, requested |-> TRUE, consumes |-> h[code].consumes]
  <2> HAVE code \in DOMAIN h
  <2>1. g[code] = [h[code] EXCEPT !.requested = TRUE]
    BY DEF held_keys_request_release
  <2>2. ASSUME NEW l, NEW r, NEW k, NEW t
        PROVE  [[left |-> l, requested |-> r, consumes |-> k] EXCEPT !.requested = t]
                 = [left |-> l, requested |-> t, consumes |-> k]
    OBVIOUS
  <2>3. h[code] = [left |-> h[code].left, requested |-> h[code].requested,
                   consumes |-> h[code].consumes]
    BY SlotFields
  <2> QED
    BY Zenon, <2>1, <2>2, <2>3
<1>4. code \in DOMAIN h => g[code] \in HeldKeySlots(MaxHold)
  <2> HAVE code \in DOMAIN h
  <2>1. h[code].left \in 0 .. MaxHold /\ h[code].consumes \in BOOLEAN /\ TRUE \in BOOLEAN
    BY SlotFields
  <2> QED
    BY Zenon, <1>3, <2>1, SlotOf
<1>5. Tables(g)
  BY <1>1, <1>2, <1>4 DEF Tables
<1>6. code \in DOMAIN h => /\ g[code].left = h[code].left
                           /\ g[code].consumes = h[code].consumes
                           /\ g[code].requested = TRUE
  BY <1>3
<1> QED
  BY Zenon, <1>1, <1>2, <1>5, <1>6 DEF AfterRequest

(* The codes that are released leave the table, the others stay.           *)
AfterPop(h, codes, g) ==
  /\ Tables(g)
  /\ DOMAIN g = DOMAIN h \ codes
  /\ \A c \in DOMAIN h \ codes : g[c] = h[c]

LEMMA PopTable ==
  ASSUME NEW h, Tables(h), NEW codes
  PROVE  AfterPop(h, codes, Popped(h, codes))
<1> DEFINE g == Popped(h, codes)
<1>1. DOMAIN g = DOMAIN h \ codes /\ \A c \in DOMAIN h \ codes : g[c] = h[c]
  BY DEF Popped
<1>2. Cardinality(DOMAIN g) <= HELD_KEYS_CAPACITY
  BY <1>1, TableIsFinite
<1> QED
  BY <1>1, <1>2 DEF Tables, AfterPop

(* Time changes only the time that is left.                                *)
AfterTime(h, g) ==
  /\ Tables(g)
  /\ DOMAIN g = DOMAIN h
  /\ \A c \in DOMAIN h : /\ g[c].requested = h[c].requested
                         /\ g[c].consumes = h[c].consumes

LEMMA ElapseTable ==
  ASSUME NEW h, Tables(h)
  PROVE  AfterTime(h, Elapse(h))
<1> DEFINE g == Elapse(h)
<1>1. DOMAIN g = DOMAIN h
  BY DEF Elapse
<1>2. ASSUME NEW c \in DOMAIN h
      PROVE  /\ g[c] \in HeldKeySlots(MaxHold)
             /\ g[c].requested = h[c].requested
             /\ g[c].consumes = h[c].consumes
  <2> DEFINE l == IF h[c].left = 0 THEN 0 ELSE h[c].left - 1
  <2>1. g[c] = [h[c] EXCEPT !.left = IF @ = 0 THEN 0 ELSE @ - 1]
    BY DEF Elapse
  <2>2. g[c] = [left |-> l, requested |-> h[c].requested, consumes |-> h[c].consumes]
    BY <2>1, SlotFields
  <2>3. l \in 0 .. MaxHold
    BY SlotFields, HoldTimes
  <2> HIDE DEF l
  <2>4. g[c] \in HeldKeySlots(MaxHold)
    <3>1. h[c].requested \in BOOLEAN /\ h[c].consumes \in BOOLEAN
      BY SlotFields
    <3> QED
      BY Zenon, <2>2, <2>3, <3>1, SlotOf
  <2>5. g[c].requested = h[c].requested /\ g[c].consumes = h[c].consumes
    BY <2>2
  <2> QED
    BY <2>4, <2>5
<1> QED
  BY <1>1, <1>2 DEF Tables, AfterTime

LEMMA NoKeysTable == Tables(NoKeys) /\ DOMAIN NoKeys = {}
<1>1. DOMAIN NoKeys = {}
  BY DEF NoKeys
<1> QED
  BY <1>1, FS_EmptySet, CapacityAssumption DEF Tables

-----------------------------------------------------------------------------
(* The parts of the invariant, and what each operation does to them.       *)

RestOK ==
  /\ fingers \subseteq Keys /\ shift_used \subseteq Shifts
  /\ {due, follow, caps, nav_poweroff, arrow, chord, warm, import_wake} \subseteq BOOLEAN
  /\ nav \in DrawnCodes \union {NoCode}
  /\ warm_left \in 0 .. WARM_START_TIMEOUT
  /\ off \in {"none", "waiting", "teal", "on"}
  /\ requests \subseteq Requests

HoldOK ==
  /\ Tables(held) /\ text \in BOOLEAN
  /\ pending \in Contexts \union {NoCode}
  /\ users \subseteq ActionKeys
  /\ UserInv

MatrixOK == matrix \subseteq Codes

PrefixOK == PrefixTypeOK /\ PrefixInv

LEMMA Parts == KeyInv <=> RestOK /\ HoldOK /\ MatrixOK /\ PrefixOK
BY Zenon DEF KeyInv, KeyboardTypeOK, RestOK, HoldOK, MatrixOK, PrefixOK, Tables, ActionKeys

LEMMA PartsNext ==
  ASSUME RestOK', HoldOK', MatrixOK', PrefixOK'
  PROVE  KeyInv'
BY Zenon DEF KeyInv, KeyboardTypeOK, RestOK, HoldOK, MatrixOK, PrefixOK, Tables, ActionKeys

(* A new context has no users yet.                                         *)
LEMMA ContextSet ==
  ASSUME HoldOK, Tables(held'), NEW c \in Contexts \union {NoCode}, NEW lock \in BOOLEAN,
         SetContext(c, lock)
  PROVE  HoldOK'
<1>1. pending' = c /\ text' = lock /\ users' = {}
  BY Zenon DEF SetContext
<1>2. users' \subseteq ActionKeys /\ users' \subseteq {d \in DOMAIN held' : held'[d].consumes}
  BY <1>1
<1>3. text' \in BOOLEAN /\ pending' \in Contexts \union {NoCode}
  BY Zenon, <1>1
<1> QED
  BY Zenon, <1>2, <1>3 DEF HoldOK, UserInv

(* The users of a context stay where their actions do.                     *)
LEMMA ContextKept ==
  ASSUME HoldOK, Tables(held'), pending' = pending, text' = text,
         users' \subseteq ActionKeys,
         ~text => \A c \in users' : c \in DOMAIN held' /\ held'[c].consumes
  PROVE  HoldOK'
<1>1. ~text => users' \subseteq {d \in DOMAIN held' : held'[d].consumes}
  BY Zenon
<1>2. text' \in BOOLEAN /\ pending' \in Contexts \union {NoCode}
  BY Zenon DEF HoldOK
<1> QED
  BY Zenon, <1>1, <1>2 DEF HoldOK, UserInv

LEMMA UsersHeld ==
  ASSUME HoldOK, ~text, NEW c \in users
  PROVE  c \in DOMAIN held /\ held[c].consumes
BY Zenon DEF HoldOK, UserInv

LEMMA HoldSame ==
  ASSUME HoldOK, UNCHANGED <<held, contextVars>>
  PROVE  HoldOK'
BY Zenon DEF HoldOK, UserInv, contextVars

(* Nothing is pressed and no context changes.                              *)
LEMMA TogglesContext ==
  ASSUME HoldOK, held' = held, NEW c \in Contexts, toggle_pending_context(c)
  PROVE  HoldOK'
<1>1. Tables(held') /\ TRUE \in BOOLEAN /\ FALSE \in BOOLEAN
  BY Zenon DEF HoldOK
<1>2. \E d \in Contexts \union {NoCode}, lock \in BOOLEAN : SetContext(d, lock)
  BY Zenon, <1>1 DEF toggle_pending_context
<1> QED
  BY Zenon, <1>1, <1>2, ContextSet

LEMMA CapsContext ==
  ASSUME HoldOK, held' = held, NEW enabled \in BOOLEAN, apply_controller_caps(enabled)
  PROVE  HoldOK'
<1>1. Tables(held') /\ "alpha" \in Contexts /\ pending \in Contexts \union {NoCode}
  BY Zenon DEF HoldOK, Contexts
<1>2. CASE UNCHANGED contextVars
  BY Zenon, <1>2, HoldSame
<1>3. CASE \E d \in Contexts \union {NoCode} : SetContext(d, enabled)
  BY Zenon, <1>1, <1>3, ContextSet
<1> QED
  BY Zenon, <1>1, <1>2, <1>3 DEF apply_controller_caps

LEMMA ClearsContext ==
  ASSUME HoldOK, Tables(held'), clear_pending_context
  PROVE  HoldOK'
<1>1. text \in BOOLEAN
  BY Zenon DEF HoldOK
<1> QED
  BY Zenon, <1>1, ContextSet DEF clear_pending_context

(* An action that ends takes the context it began with along.              *)
LEMMA ReleaseHolds ==
  ASSUME HoldOK, NEW codes \in SUBSET DOMAIN held, release_hp_action(codes)
  PROVE  HoldOK' /\ matrix' \subseteq matrix
<1>1. /\ Tables(held') /\ DOMAIN held' = DOMAIN held \ codes
      /\ \A c \in DOMAIN held \ codes : held'[c] = held[c]
  <2>1. Tables(held) /\ held' = Popped(held, codes)
    BY Zenon DEF HoldOK, release_hp_action
  <2> QED
    BY Zenon, <2>1, PopTable DEF AfterPop
<1>2. matrix' \subseteq matrix
  BY Zenon DEF release_hp_action, Lifted
<1>3. CASE FinishesContext(codes) /\ ~text
  BY Zenon, <1>1, <1>2, <1>3, ClearsContext DEF release_hp_action
<1>4. CASE ~(FinishesContext(codes) /\ ~text)
  <2>1. UNCHANGED contextVars
    BY Zenon, <1>4 DEF release_hp_action
  <2>2. pending' = pending /\ text' = text /\ users' = users
    BY <2>1 DEF contextVars
  <2>3. ASSUME ~text, NEW c \in users'
        PROVE  c \in DOMAIN held' /\ held'[c].consumes
    <3>1. c \in DOMAIN held /\ held[c].consumes
      BY Zenon, <2>2, <2>3, UsersHeld
    <3>2. c \notin codes
      BY Zenon, <1>4, <2>3, <3>1 DEF FinishesContext
    <3> QED
      BY Zenon, <1>1, <3>1, <3>2
  <2>4. users' \subseteq ActionKeys
    BY Zenon, <2>2 DEF HoldOK
  <2> QED
    BY Zenon, <1>1, <1>2, <2>2, <2>3, <2>4, ContextKept
<1> QED
  BY Zenon, <1>2, <1>3, <1>4

LEMMA FinishHolds ==
  ASSUME HoldOK, finish_hp_action
  PROVE  HoldOK' /\ matrix' \subseteq matrix
<1>1. DOMAIN held \in SUBSET DOMAIN held
  OBVIOUS
<1> QED
  BY Zenon, <1>1, ReleaseHolds DEF finish_hp_action

(* The flags of an action survive another press and its release's request. *)
LEMMA RequestHolds ==
  ASSUME HoldOK, NEW code, request_hp_action_release(code), UNCHANGED contextVars
  PROVE  HoldOK' /\ matrix' \subseteq matrix
<1>1. /\ Tables(held') /\ DOMAIN held' = DOMAIN held
      /\ \A c \in DOMAIN held : held'[c].consumes = held[c].consumes
  <2>1. Tables(held) /\ held' = held_keys_request_release(held, code)
    BY Zenon DEF HoldOK, request_hp_action_release
  <2> QED
    <3>1. AfterRequest(held, code, held')
      BY Zenon, <2>1, RequestTable
    <3> QED
      BY Zenon, <3>1 DEF AfterRequest
<1>2. matrix' \subseteq matrix
  BY DEF request_hp_action_release
<1>3. pending' = pending /\ text' = text /\ users' = users
  BY DEF contextVars
<1>4. ASSUME ~text, NEW c \in users'
      PROVE  c \in DOMAIN held' /\ held'[c].consumes
  <2>1. c \in DOMAIN held /\ held[c].consumes
    BY Zenon, <1>3, <1>4, UsersHeld
  <2> QED
    BY Zenon, <1>1, <2>1
<1>5. users' \subseteq ActionKeys
  BY Zenon, <1>3 DEF HoldOK
<1> QED
  BY Zenon, <1>1, <1>2, <1>3, <1>4, <1>5, ContextKept

(* A press that uses the context is remembered with it.                    *)
LEMMA PressHolds ==
  ASSUME HoldOK, NEW code \in ActionKeys, NEW hold \in 0 .. MaxHold,
         NEW consumes \in BOOLEAN,
         NEW g, Tables(g), DOMAIN held' = DOMAIN g, Tables(held'),
         g = held_keys_press(held, code, hold, consumes),
         \A c \in DOMAIN g : held'[c].consumes = g[c].consumes,
         users' = IF consumes /\ Fits(held, code) THEN users \union {code} ELSE users,
         pending' = pending, text' = text
  PROVE  HoldOK'
<1>1. /\ DOMAIN g = IF Fits(held, code) THEN DOMAIN held \union {code} ELSE DOMAIN held
      /\ \A c \in DOMAIN held : held[c].consumes => g[c].consumes
      /\ code \in DOMAIN g /\ consumes => g[code].consumes
  <2>1. Tables(held)
    BY Zenon DEF HoldOK
  <2>2. AfterPress(held, code, consumes, g)
    BY Zenon, <2>1, PressTable
  <2> QED
    BY Zenon, <2>2 DEF AfterPress
<1>2. DOMAIN held \subseteq DOMAIN g /\ (Fits(held, code) => code \in DOMAIN g)
  BY Zenon, <1>1
<1>3. ASSUME ~text, NEW c \in users'
      PROVE  c \in DOMAIN held' /\ held'[c].consumes
  <2>1. CASE c \in users
    <3>1. c \in DOMAIN held /\ held[c].consumes
      BY Zenon, <1>3, <2>1, UsersHeld
    <3> QED
      BY Zenon, <1>1, <1>2, <3>1
  <2>2. CASE c \notin users
    <3>1. consumes /\ Fits(held, code) /\ c = code
      BY Zenon, <1>3, <2>2
    <3> QED
      BY Zenon, <1>1, <1>2, <3>1
  <2> QED
    BY <2>1, <2>2
<1>4. users' \subseteq ActionKeys
  BY Zenon DEF HoldOK
<1> QED
  BY Zenon, <1>3, <1>4, ContextKept

LEMMA BeginHolds ==
  ASSUME HoldOK, MatrixOK, NEW code \in ActionKeys, NEW hold \in 0 .. MaxHold,
         NEW consumes \in BOOLEAN, begin_hp_action_for(code, consumes, hold),
         users' = IF consumes /\ Fits(held, code) THEN users \union {code} ELSE users,
         UNCHANGED <<pending, text>>
  PROVE  HoldOK' /\ MatrixOK'
<1>1. held' = held_keys_press(held, code, hold, consumes)
  BY Zenon DEF begin_hp_action_for
<1>2. Tables(held')
  BY Zenon, <1>1, PressTable DEF HoldOK, AfterPress
<1>3. HoldOK'
  BY Zenon, <1>1, <1>2, PressHolds
<1>4. code \in Codes
  BY Zenon DEF ActionKeys
<1>5. MatrixOK'
  BY Zenon, <1>4 DEF MatrixOK, begin_hp_action_for
<1> QED
  BY <1>3, <1>5

(* The prefix sequence.                                                    *)
LEMMA PrefixIdle ==
  ASSUME prefix' = Idle
  PROVE  PrefixOK'
<1>1. Idle.stage = "IDLE"
  BY DEF Idle
<1> QED
  BY <1>1 DEF PrefixOK, PrefixTypeOK, PrefixInv

LEMMA PrefixStarts ==
  ASSUME NEW c \in Contexts, NEW code \in ActionKeys, prefix' = FirstHold(c, code)
  PROVE  PrefixOK'
<1>1. /\ prefix'.stage = "HOLD" /\ prefix'.prefix_code = c /\ prefix'.action_code = code
      /\ prefix'.wait_polls = 0 /\ prefix'.attempts = 1
  BY DEF FirstHold
<1>2. c \in PrefixCodes /\ code \in ActionCodes
  BY Zenon, KeyboardAssumption DEF ActionKeys
<1>3. 0 \in 0 .. PREFIX_HOLD_POLLS /\ 1 \in 1 .. PREFIX_MAX_ATTEMPTS
  BY PrefixAssumption
<1>4. "HOLD" # "WAIT_LATCH"
  OBVIOUS
<1>5. PrefixTypeOK'
  BY <1>2, <1>3 DEF PrefixTypeOK, FirstHold, Sequences
<1>6. PrefixInv'
  BY Zenon, <1>1, <1>4 DEF PrefixInv
<1> QED
  BY <1>5, <1>6 DEF PrefixOK

(* A sequence that runs.                                                   *)
LEMMA PrefixActive ==
  ASSUME PrefixOK, prefix # Idle
  PROVE  /\ \/ prefix \in Sequences("HOLD", PREFIX_HOLD_POLLS)
            \/ prefix \in Sequences("WAIT_LATCH", PREFIX_LATCH_WAIT_POLLS)
         /\ prefix.prefix_code \in Contexts /\ prefix.action_code \in ActionKeys
         /\ prefix.stage # "IDLE"
BY KeyboardAssumption DEF PrefixOK, PrefixTypeOK, ActionKeys, Sequences

LEMMA ActiveStage ==
  ASSUME prefix.stage # "IDLE"
  PROVE  prefix # Idle
BY DEF Idle

(* An event comes while no sequence runs.                                  *)
LEMMA PrefixRests ==
  ASSUME PrefixOK, ~prefix_sequence_active
  PROVE  prefix = Idle
BY PrefixActive DEF prefix_sequence_active

LEMMA EventIsIdle ==
  ASSUME PrefixOK, EventTurn
  PROVE  prefix = Idle
BY Zenon, PrefixRests DEF EventTurn

(* The matrix loses keys, or gains others than the prefix.                 *)
LEMMA PrefixStays ==
  ASSUME PrefixOK, prefix' = prefix, off' = off, matrix' \subseteq matrix \union ActionKeys
  PROVE  PrefixOK'
<1>1. PrefixTypeOK'
  BY Zenon DEF PrefixOK, PrefixTypeOK
<1>2. PrefixInv'
  <2> SUFFICES ASSUME prefix.stage = "WAIT_LATCH", prefix.prefix_code \in matrix'
               PROVE  off = "teal" /\ prefix.prefix_code = "rsh"
    BY Zenon DEF PrefixInv
  <2>1. prefix.prefix_code \in Contexts
    BY PrefixActive, ActiveStage
  <2>2. prefix.prefix_code \in matrix
    BY Zenon, <2>1 DEF ActionKeys
  <2> QED
    BY Zenon, <2>2 DEF PrefixOK, PrefixInv
<1> QED
  BY <1>1, <1>2 DEF PrefixOK

(* A press of an action key: held at once, or behind its prefix.           *)
LEMMA ActionPressed ==
  ASSUME HoldOK, MatrixOK, PrefixOK, prefix = Idle, NEW code \in ActionKeys, PressAction(code)
  PROVE  HoldOK' /\ MatrixOK' /\ PrefixOK'
<1>1. HP_KEY_MIN_HOLD \in 0 .. MaxHold /\ TRUE \in BOOLEAN /\ FALSE \in BOOLEAN
  BY HoldTimes
<1>2. CASE begin_hp_action(code) /\ UNCHANGED <<contextVars, prefix>>
  <2>1. pending' = pending /\ text' = text /\ users' = users /\ prefix' = prefix
    BY <1>2 DEF contextVars
  <2>2. HoldOK' /\ MatrixOK'
    BY Zenon, <1>1, <1>2, <2>1, BeginHolds DEF begin_hp_action
  <2> QED
    BY Zenon, <2>1, <2>2, PrefixIdle
<1>3. CASE begin_hp_action_with_context(code) /\ UNCHANGED prefix
  <2>1. HoldOK' /\ MatrixOK'
    BY Zenon, <1>1, <1>3, BeginHolds DEF begin_hp_action_with_context
  <2> QED
    BY Zenon, <1>3, <2>1, PrefixIdle
<1>4. CASE /\ pending # NoCode /\ prefix_sequence_start(pending, code)
           /\ matrix' = matrix \union {pending}
           /\ UNCHANGED <<held, contextVars>>
  <2>1. pending \in Contexts /\ prefix' = FirstHold(pending, code)
    BY Zenon, <1>4 DEF HoldOK, prefix_sequence_start
  <2>2. MatrixOK'
    BY Zenon, <1>4, <2>1 DEF MatrixOK, Codes
  <2>3. HoldOK'
    BY Zenon, <1>4, HoldSame
  <2> QED
    BY Zenon, <2>1, <2>2, <2>3, PrefixStarts
<1> QED
  BY Zenon, <1>2, <1>3, <1>4 DEF PressAction

(* OFF and a warm start release every key and end every context.           *)
LEMMA EverythingReleased ==
  ASSUME HoldOK, ReleaseEverything
  PROVE  HoldOK' /\ nav' = NoCode
<1>1. Tables(held')
  BY Zenon, NoKeysTable DEF ReleaseEverything
<1> QED
  BY Zenon, <1>1, ClearsContext DEF ReleaseEverything

LEMMA PoweroffKeeps ==
  ASSUME RestOK, HoldOK, MatrixOK, prefix = Idle, start_graceful_poweroff
  PROVE  /\ HoldOK' /\ MatrixOK' /\ PrefixOK'
         /\ nav' \in DrawnCodes \union {NoCode} /\ off' \in {"none", "waiting", "teal", "on"}
         /\ warm_left' = warm_left /\ nav_poweroff' \in BOOLEAN /\ warm' \in BOOLEAN
<1>0. /\ nav \in DrawnCodes \union {NoCode} /\ off \in {"none", "waiting", "teal", "on"}
      /\ nav_poweroff \in BOOLEAN /\ warm \in BOOLEAN
  BY Zenon DEF RestOK
<1>1. CASE UNCHANGED <<contextVars, matrixVars, navVars, sequenceVars>>
  <2>1. /\ UNCHANGED <<held, contextVars>> /\ matrix' = matrix /\ prefix' = prefix
        /\ nav' = nav /\ off' = off /\ warm_left' = warm_left
    BY <1>1 DEF matrixVars, navVars, sequenceVars
  <2>2. nav_poweroff' = nav_poweroff /\ warm' = warm
    BY Zenon, <1>1 DEF navVars, sequenceVars
  <2>3. MatrixOK'
    BY Zenon, <2>1 DEF MatrixOK
  <2> QED
    BY Zenon, <1>0, <2>1, <2>2, <2>3, HoldSame, PrefixIdle
<1>2. CASE /\ ReleaseEverything /\ matrix' = AllUp /\ prefix_sequence_reset
           /\ nav_poweroff' = FALSE /\ warm' = FALSE
           /\ off' \in {"waiting", "none"}
           /\ UNCHANGED warm_left
  <2>1. MatrixOK'
    BY Zenon, <1>2 DEF MatrixOK, AllUp, Lifted
  <2>2. off' \in {"none", "waiting", "teal", "on"}
    BY Zenon, <1>2
  <2> QED
    BY Zenon, <1>2, <2>1, <2>2, EverythingReleased, PrefixIdle DEF prefix_sequence_reset
<1> QED
  BY Zenon, <1>1, <1>2 DEF start_graceful_poweroff

LEMMA WarmStartKeeps ==
  ASSUME RestOK, HoldOK, MatrixOK, prefix = Idle, start_warm_start
  PROVE  /\ HoldOK' /\ MatrixOK' /\ PrefixOK'
         /\ nav' \in DrawnCodes \union {NoCode} /\ off' = off
         /\ warm_left' \in 0 .. WARM_START_TIMEOUT /\ nav_poweroff' = nav_poweroff
         /\ warm' \in BOOLEAN
<1>0. /\ nav \in DrawnCodes \union {NoCode} /\ off \in {"none", "waiting", "teal", "on"}
      /\ nav_poweroff \in BOOLEAN /\ warm \in BOOLEAN /\ warm_left \in 0 .. WARM_START_TIMEOUT
  BY Zenon DEF RestOK
<1>1. CASE UNCHANGED <<contextVars, matrixVars, navVars, sequenceVars>>
  <2>1. /\ UNCHANGED <<held, contextVars>> /\ matrix' = matrix /\ prefix' = prefix
        /\ nav' = nav /\ off' = off /\ warm_left' = warm_left
    BY <1>1 DEF matrixVars, navVars, sequenceVars
  <2>2. nav_poweroff' = nav_poweroff /\ warm' = warm
    BY Zenon, <1>1 DEF navVars, sequenceVars
  <2>3. MatrixOK'
    BY Zenon, <2>1 DEF MatrixOK
  <2> QED
    BY Zenon, <1>0, <2>1, <2>2, <2>3, HoldSame, PrefixIdle
<1>2. CASE /\ ReleaseEverything /\ matrix' = AllUp \union {"rsh"}
           /\ prefix' = FirstHold("rsh", "on")
           /\ warm' = TRUE /\ warm_left' = WARM_START_TIMEOUT
           /\ UNCHANGED <<nav_poweroff, off>>
  <2>1. "rsh" \in Codes /\ "rsh" \in Contexts /\ "on" \in ActionKeys
    BY CodeNames
  <2>2. MatrixOK'
    BY Zenon, <1>2, <2>1 DEF MatrixOK, AllUp, Lifted
  <2>3. warm_left' \in 0 .. WARM_START_TIMEOUT
    BY <1>2, KeyboardAssumption
  <2>4. off' = off /\ nav_poweroff' = nav_poweroff
    BY Zenon, <1>2
  <2> QED
    BY Zenon, <1>2, <2>1, <2>2, <2>3, <2>4, EverythingReleased, PrefixStarts
<1> QED
  BY Zenon, <1>1, <1>2 DEF start_warm_start

(* Every outcome of a poll, for the sequence and for its caller.           *)
SameCodes ==
  prefix'.prefix_code = prefix.prefix_code /\ prefix'.action_code = prefix.action_code

LEMMA HoldAdvances ==
  ASSUME prefix \in Sequences("HOLD", PREFIX_HOLD_POLLS), NEW transition, Hold(transition)
  PROVE  /\ PrefixTypeOK' /\ SameCodes
         /\ \/ transition = "NONE" /\ prefix'.stage = "HOLD"
            \/ transition = "RELEASE_PREFIX" /\ prefix'.stage = "WAIT_LATCH"
<1>1. CASE KeepWaiting(PREFIX_HOLD_POLLS) /\ transition = "NONE"
  <2>1. prefix' \in Sequences("HOLD", PREFIX_HOLD_POLLS)
    BY <1>1, PrefixAssumption DEF KeepWaiting, Sequences
  <2>2. prefix'.stage = "HOLD" /\ SameCodes
    BY <1>1 DEF KeepWaiting, Sequences, SameCodes
  <2> QED
    BY Zenon, <1>1, <2>1, <2>2 DEF PrefixTypeOK
<1>2. CASE transition = "RELEASE_PREFIX" /\ prefix' = Enter("WAIT_LATCH")
  <2>1. prefix' \in Sequences("WAIT_LATCH", PREFIX_LATCH_WAIT_POLLS)
    <3>1. 0 \in 0 .. PREFIX_LATCH_WAIT_POLLS
      BY PrefixAssumption
    <3>2. prefix' = [stage |-> "WAIT_LATCH", prefix_code |-> prefix.prefix_code,
                     action_code |-> prefix.action_code, wait_polls |-> 0,
                     attempts |-> prefix.attempts]
      BY <1>2 DEF Enter, Sequences
    <3> QED
      BY <3>1, <3>2 DEF Sequences
  <2>2. prefix'.stage = "WAIT_LATCH" /\ SameCodes
    BY <1>2 DEF Enter, Sequences, SameCodes
  <2> QED
    BY Zenon, <1>2, <2>1, <2>2 DEF PrefixTypeOK
<1> QED
  BY Zenon, <1>1, <1>2 DEF Hold

LEMMA WaitAdvances ==
  ASSUME prefix \in Sequences("WAIT_LATCH", PREFIX_LATCH_WAIT_POLLS),
         NEW latched \in BOOLEAN, NEW transition, WaitLatch(latched, transition)
  PROVE  /\ PrefixTypeOK'
         /\ \/ transition = "NONE" /\ prefix'.stage = "WAIT_LATCH" /\ SameCodes
            \/ transition = "PRESS_PREFIX" /\ prefix'.stage = "HOLD" /\ SameCodes
            \/ transition = "PRESS_ACTION" /\ prefix' = Idle
<1>1. CASE KeepWaiting(PREFIX_LATCH_WAIT_POLLS) /\ transition = "NONE"
  <2>1. prefix' \in Sequences("WAIT_LATCH", PREFIX_LATCH_WAIT_POLLS)
    BY <1>1, PrefixAssumption DEF KeepWaiting, Sequences
  <2>2. prefix'.stage = "WAIT_LATCH" /\ SameCodes
    BY <1>1 DEF KeepWaiting, Sequences, SameCodes
  <2> QED
    BY Zenon, <1>1, <2>1, <2>2 DEF PrefixTypeOK
<1>2. CASE RetryPrefix(latched, transition)
  <2>1. prefix.attempts < PREFIX_MAX_ATTEMPTS /\ transition = "PRESS_PREFIX"
        /\ prefix' = [Enter("HOLD") EXCEPT !.attempts = @ + 1]
    BY Zenon, <1>2 DEF RetryPrefix
  <2>2. prefix' \in Sequences("HOLD", PREFIX_HOLD_POLLS)
    <3>1. 0 \in 0 .. PREFIX_HOLD_POLLS
      BY PrefixAssumption
    <3>2. prefix.attempts + 1 \in 1 .. PREFIX_MAX_ATTEMPTS
      BY <2>1, PrefixAssumption DEF Sequences
    <3>3. prefix' = [stage |-> "HOLD", prefix_code |-> prefix.prefix_code,
                     action_code |-> prefix.action_code, wait_polls |-> 0,
                     attempts |-> prefix.attempts + 1]
      BY <2>1 DEF Enter, Sequences
    <3> QED
      BY <3>1, <3>2, <3>3 DEF Sequences
  <2>3. prefix'.stage = "HOLD" /\ SameCodes
    BY <2>1 DEF Enter, Sequences, SameCodes
  <2> QED
    BY Zenon, <2>1, <2>2, <2>3 DEF PrefixTypeOK
<1>3. CASE transition = "PRESS_ACTION" /\ prefix' = Idle
  BY Zenon, <1>3 DEF PrefixTypeOK
<1> QED
  BY Zenon, <1>1, <1>2, <1>3 DEF WaitLatch

LEMMA Advances ==
  ASSUME PrefixOK, NEW latched \in BOOLEAN, NEW transition,
         prefix_sequence_advance(latched, transition)
  PROVE  /\ prefix # Idle /\ PrefixTypeOK'
         /\ \/ transition = "NONE" /\ prefix'.stage = prefix.stage /\ SameCodes
            \/ /\ transition = "RELEASE_PREFIX" /\ prefix.stage = "HOLD"
               /\ prefix'.stage = "WAIT_LATCH" /\ SameCodes
            \/ /\ transition = "PRESS_PREFIX" /\ prefix.stage = "WAIT_LATCH"
               /\ prefix'.stage = "HOLD" /\ SameCodes
            \/ transition = "PRESS_ACTION" /\ prefix.stage = "WAIT_LATCH" /\ prefix' = Idle
<1>1. prefix # Idle
  BY ActiveStage DEF prefix_sequence_advance, Hold, WaitLatch
<1>2. "HOLD" # "WAIT_LATCH" /\ "HOLD" # "IDLE" /\ "WAIT_LATCH" # "IDLE"
  OBVIOUS
<1>3. CASE prefix \in Sequences("HOLD", PREFIX_HOLD_POLLS)
  <2>1. prefix.stage = "HOLD"
    BY <1>3 DEF Sequences
  <2>2. Hold(transition)
    BY Zenon, <1>2, <2>1 DEF prefix_sequence_advance, WaitLatch
  <2> QED
    BY <1>1, <1>3, <2>1, <2>2, HoldAdvances
<1>4. CASE prefix \in Sequences("WAIT_LATCH", PREFIX_LATCH_WAIT_POLLS)
  <2>1. prefix.stage = "WAIT_LATCH"
    BY <1>4 DEF Sequences
  <2>2. WaitLatch(latched, transition)
    BY Zenon, <1>2, <2>1 DEF prefix_sequence_advance, Hold
  <2> QED
    BY <1>1, <1>4, <2>1, <2>2, WaitAdvances
<1> QED
  BY <1>1, <1>3, <1>4, PrefixActive

-----------------------------------------------------------------------------
(* The invariant holds at the start and every step keeps it.               *)

LEMMA InitKeys == Init => KeyInv
<1> SUFFICES ASSUME Init PROVE RestOK /\ HoldOK /\ MatrixOK /\ PrefixOK
  BY Zenon, Parts
<1>1. warm_left \in 0 .. WARM_START_TIMEOUT
  BY KeyboardAssumption DEF Init
<1>2. RestOK
  BY Zenon, <1>1 DEF RestOK, Init
<1>3. HoldOK
  BY Zenon, NoKeysTable DEF HoldOK, UserInv, Init
<1>4. MatrixOK
  BY Zenon DEF MatrixOK, Init
<1>5. PrefixOK
  BY DEF PrefixOK, PrefixTypeOK, PrefixInv, Init, Idle
<1> QED
  BY <1>2, <1>3, <1>4, <1>5

LEMMA TickKeys ==
  ASSUME KeyInv, Tick
  PROVE  KeyInv'
<1>0. RestOK /\ HoldOK /\ MatrixOK /\ PrefixOK
  BY Zenon, Parts
<1>1. UNCHANGED <<pending, text, users, matrix, prefix, off, fingers, shift_used, nav, requests>>
  BY DEF Tick, contextVars, navVars, mainVars
<1>2. UNCHANGED <<follow, caps, nav_poweroff, arrow, chord, warm, import_wake>> /\ due' = TRUE
  BY Zenon DEF Tick, capsVars, navVars, mainVars
<1>3. warm_left' \in 0 .. WARM_START_TIMEOUT
  BY <1>0, KeyboardAssumption DEF Tick, RestOK
<1>4. RestOK'
  BY Zenon, <1>0, <1>1, <1>2, <1>3 DEF RestOK
<1>5. AfterTime(held, held')
  BY Zenon, <1>0, ElapseTable DEF Tick, HoldOK
<1>6. HoldOK'
  <2>1. ASSUME ~text, NEW c \in users' PROVE c \in DOMAIN held' /\ held'[c].consumes
    <3>1. c \in DOMAIN held /\ held[c].consumes
      BY Zenon, <1>0, <1>1, <2>1, UsersHeld
    <3> QED
      BY Zenon, <1>5, <3>1 DEF AfterTime
  <2>2. users' \subseteq ActionKeys /\ Tables(held')
    BY Zenon, <1>0, <1>1, <1>5 DEF HoldOK, AfterTime
  <2> QED
    BY Zenon, <1>0, <1>1, <2>1, <2>2, ContextKept
<1>7. MatrixOK' /\ PrefixOK'
  BY Zenon, <1>0, <1>1, PrefixStays DEF MatrixOK
<1> QED
  BY Zenon, <1>4, <1>6, <1>7, PartsNext

LEMMA SequenceIsOff == SequenceKeys \subseteq OffKeys
BY DEF SequenceKeys

LEMMA OffKeysAreKeys == OffKeys \subseteq Codes /\ "rsh" \in Codes /\ "on" \in Codes
BY CodeNames DEF OffKeys

LEMMA OffPollKeys ==
  ASSUME KeyInv, OffPoll
  PROVE  KeyInv'
<1>0. RestOK /\ HoldOK /\ MatrixOK /\ PrefixOK
  BY Zenon, Parts
<1>1. UNCHANGED <<held, contextVars, prefix, fingers, shift_used, nav, requests, warm_left>>
  BY DEF OffPoll, navVars, mainVars
<1>2. UNCHANGED <<follow, caps, nav_poweroff, arrow, chord, warm, import_wake>> /\ due' = FALSE
  BY Zenon DEF OffPoll, Poll, capsVars, navVars, mainVars
<1>3. /\ off' \in {"none", "waiting", "teal", "on"}
      /\ \/ off = "waiting" /\ off' = "teal" /\ matrix' = matrix \union {"rsh"}
         \/ off = "teal" /\ off' = "waiting" /\ matrix' = matrix \ {"rsh"}
         \/ off # "teal" /\ matrix' \subseteq matrix \union {"on"}
  BY DEF OffPoll
<1>4. RestOK'
  BY Zenon, <1>0, <1>1, <1>2, <1>3 DEF RestOK
<1>5. HoldOK'
  BY Zenon, <1>0, <1>1, HoldSame
<1>6. MatrixOK'
  BY Zenon, <1>0, <1>3, OffKeysAreKeys DEF MatrixOK
<1>7. PrefixOK'
  <2>1. PrefixTypeOK'
    BY Zenon, <1>0, <1>1 DEF PrefixOK, PrefixTypeOK
  <2>2. prefix.stage = "WAIT_LATCH" => prefix.prefix_code \in Contexts
    BY <1>0, PrefixActive, ActiveStage
  <2>3. PrefixInv'
    BY <1>0, <1>1, <1>3, <2>2, CodeNames DEF PrefixOK, PrefixInv
  <2> QED
    BY <2>1, <2>3 DEF PrefixOK
<1> QED
  BY Zenon, <1>4, <1>5, <1>6, <1>7, PartsNext

LEMMA DueAreHeld == DueReleases(held) \in SUBSET DOMAIN held
BY DEF DueReleases, Requested

LEMMA ReleasePollKeys ==
  ASSUME KeyInv, ReleasePoll
  PROVE  KeyInv'
<1>0. RestOK /\ HoldOK /\ MatrixOK /\ PrefixOK
  BY Zenon, Parts
<1>1. UNCHANGED <<prefix, off, fingers, shift_used, nav, requests, warm_left>>
  BY DEF ReleasePoll, navVars, sequenceVars, mainVars
<1>2. UNCHANGED <<follow, caps, nav_poweroff, arrow, chord, warm, import_wake>> /\ due' = FALSE
  BY Zenon DEF ReleasePoll, Poll, capsVars, navVars, sequenceVars, mainVars
<1>3. HoldOK' /\ matrix' \subseteq matrix
  BY Zenon, <1>0, DueAreHeld, ReleaseHolds DEF ReleasePoll
<1>4. RestOK'
  BY Zenon, <1>0, <1>1, <1>2 DEF RestOK
<1>5. MatrixOK' /\ PrefixOK'
  BY Zenon, <1>0, <1>1, <1>3, PrefixStays DEF MatrixOK
<1> QED
  BY Zenon, <1>3, <1>4, <1>5, PartsNext

(* A press whose release is requested at once.                             *)
LEMMA TapHolds ==
  ASSUME HoldOK, NEW code \in ActionKeys, NEW hold \in 0 .. MaxHold,
         NEW consumes \in BOOLEAN,
         \/ held' = held_keys_press(held, code, hold, consumes)
         \/ held' = held_keys_request_release(held_keys_press(held, code, hold, consumes), code),
         users' = IF consumes /\ Fits(held, code) THEN users \union {code} ELSE users,
         pending' = pending, text' = text
  PROVE  HoldOK'
<1> DEFINE g == held_keys_press(held, code, hold, consumes)
<1>1. AfterPress(held, code, consumes, g)
  BY Zenon, PressTable DEF HoldOK
<1>2. Tables(g)
  BY Zenon, <1>1 DEF AfterPress
<1>3. CASE held' = g
  <2>1. Tables(held') /\ DOMAIN held' = DOMAIN g
        /\ \A c \in DOMAIN g : held'[c].consumes = g[c].consumes
    BY Zenon, <1>2, <1>3
  <2> QED
    BY Zenon, <1>2, <2>1, PressHolds
<1>4. CASE held' = held_keys_request_release(g, code)
  <2>1. AfterRequest(g, code, held')
    BY Zenon, <1>2, <1>4, RequestTable
  <2>2. Tables(held') /\ DOMAIN held' = DOMAIN g
        /\ \A c \in DOMAIN g : held'[c].consumes = g[c].consumes
    BY Zenon, <2>1 DEF AfterRequest
  <2> QED
    BY Zenon, <1>2, <2>2, PressHolds
<1> QED
  BY Zenon, <1>3, <1>4

LEMMA DeliverHolds ==
  ASSUME HoldOK, NEW code \in ActionKeys, Deliver(code)
  PROVE  HoldOK' /\ matrix' \subseteq matrix \union {code}
<1>1. HP_KEY_MIN_HOLD \in 0 .. MaxHold /\ (pending # NoCode) \in BOOLEAN
  BY HoldTimes
<1>2. HoldOK'
  BY Zenon, <1>1, TapHolds DEF Deliver
<1>3. matrix' \subseteq matrix \union {code}
  BY DEF Deliver
<1> QED
  BY <1>2, <1>3

LEMMA PrefixPollKeys ==
  ASSUME KeyInv, PrefixPoll
  PROVE  KeyInv'
<1>0. RestOK /\ HoldOK /\ MatrixOK /\ PrefixOK
  BY Zenon, Parts
<1>1. UNCHANGED <<off, fingers, shift_used, nav, requests, warm_left>>
  BY DEF PrefixPoll, navVars, mainVars
<1>2. UNCHANGED <<follow, caps, nav_poweroff, arrow, chord, warm, import_wake>> /\ due' = FALSE
  BY Zenon DEF PrefixPoll, Poll, capsVars, navVars, mainVars
<1>3. RestOK'
  BY Zenon, <1>0, <1>1, <1>2 DEF RestOK
<1>4. PICK latched \in BOOLEAN, transition \in Transitions :
        prefix_sequence_advance(latched, transition) /\ apply_prefix_transition(transition)
  BY Zenon DEF PrefixPoll
<1>5. /\ prefix # Idle /\ PrefixTypeOK'
      /\ \/ transition = "NONE" /\ prefix'.stage = prefix.stage /\ SameCodes
         \/ /\ transition = "RELEASE_PREFIX" /\ prefix.stage = "HOLD"
            /\ prefix'.stage = "WAIT_LATCH" /\ SameCodes
         \/ /\ transition = "PRESS_PREFIX" /\ prefix.stage = "WAIT_LATCH"
            /\ prefix'.stage = "HOLD" /\ SameCodes
         \/ transition = "PRESS_ACTION" /\ prefix.stage = "WAIT_LATCH" /\ prefix' = Idle
  BY Zenon, <1>0, <1>4, Advances
<1>6. prefix.prefix_code \in Contexts /\ prefix.action_code \in ActionKeys
      /\ Contexts \subseteq Codes /\ ActionKeys \subseteq Codes
  BY <1>0, <1>5, PrefixActive, CodeNames
<1>7. CASE transition = "NONE"
  <2>1. UNCHANGED <<held, contextVars>> /\ matrix' = matrix
    BY <1>4, <1>7 DEF apply_prefix_transition, matrixVars
  <2>2. prefix'.stage = prefix.stage /\ SameCodes
    BY <1>5, <1>7
  <2>3. PrefixOK'
    BY Zenon, <1>0, <1>1, <1>5, <2>1, <2>2 DEF PrefixOK, PrefixInv, SameCodes
  <2> QED
    BY Zenon, <1>0, <1>3, <2>1, <2>3, HoldSame, PartsNext DEF MatrixOK
<1>8. CASE transition = "PRESS_PREFIX"
  <2>1. UNCHANGED <<held, contextVars>> /\ matrix' = matrix \union {prefix.prefix_code}
    BY <1>4, <1>8 DEF apply_prefix_transition
  <2>2. prefix'.stage = "HOLD"
    BY <1>5, <1>8
  <2>3. PrefixOK'
    BY <1>5, <2>2 DEF PrefixOK, PrefixInv
  <2> QED
    BY Zenon, <1>0, <1>3, <1>6, <2>1, <2>3, HoldSame, PartsNext DEF MatrixOK
<1>9. CASE transition = "RELEASE_PREFIX"
  <2>1. UNCHANGED <<held, contextVars>> /\ matrix' = matrix \ {prefix.prefix_code}
    BY <1>4, <1>9 DEF apply_prefix_transition
  <2>2. SameCodes
    BY <1>5, <1>9
  <2>3. PrefixOK'
    BY Zenon, <1>5, <2>1, <2>2 DEF PrefixOK, PrefixInv, SameCodes
  <2> QED
    BY Zenon, <1>0, <1>3, <2>1, <2>3, HoldSame, PartsNext DEF MatrixOK
<1>10. CASE transition = "PRESS_ACTION"
  <2>1. Deliver(prefix.action_code)
    BY <1>4, <1>10 DEF apply_prefix_transition
  <2>2. HoldOK' /\ matrix' \subseteq matrix \union {prefix.action_code}
    BY Zenon, <1>0, <1>6, <2>1, DeliverHolds
  <2>3. PrefixOK'
    BY <1>5, <1>10, PrefixIdle
  <2> QED
    BY Zenon, <1>0, <1>3, <1>6, <2>2, <2>3, PartsNext DEF MatrixOK
<1> QED
  BY <1>5, <1>7, <1>8, <1>9, <1>10

LEMMA WarmPollKeys ==
  ASSUME KeyInv, WarmPoll
  PROVE  KeyInv'
<1>0. RestOK /\ HoldOK /\ MatrixOK /\ PrefixOK
  BY Zenon, Parts
<1>1. UNCHANGED <<contextVars, prefix, off, fingers, shift_used, nav, requests, warm_left>>
  BY DEF WarmPoll, navVars, mainVars
<1>2. UNCHANGED <<follow, caps, nav_poweroff, arrow, chord, import_wake>> /\ due' = FALSE
      /\ warm' = FALSE
  BY Zenon DEF WarmPoll, Poll, capsVars, navVars, mainVars
<1>3. RestOK'
  BY Zenon, <1>0, <1>1, <1>2 DEF RestOK
<1>4. HoldOK' /\ matrix' \subseteq matrix \union {"on"}
  <2>1. CASE UNCHANGED matrixVars
    <3>1. held' = held /\ matrix' = matrix
      BY <2>1 DEF matrixVars
    <3> QED
      BY Zenon, <1>0, <1>1, <3>1, HoldSame
  <2>2. CASE WarmWake
    <3>1. "on" \in ActionKeys /\ HP_KEY_MIN_HOLD \in 0 .. MaxHold /\ FALSE \in BOOLEAN
      BY CodeNames, HoldTimes
    <3>2. pending' = pending /\ text' = text /\ users' = users
      BY <1>1 DEF contextVars
    <3>3. HoldOK'
      BY Zenon, <1>0, <2>2, <3>1, <3>2, TapHolds DEF WarmWake
    <3> QED
      BY Zenon, <2>2, <3>3 DEF WarmWake
  <2> QED
    BY Zenon, <2>1, <2>2 DEF WarmPoll
<1>5. "on" \in ActionKeys /\ "on" \in Codes
  BY CodeNames
<1>6. MatrixOK' /\ PrefixOK'
  BY Zenon, <1>0, <1>1, <1>4, <1>5, PrefixStays DEF MatrixOK
<1> QED
  BY Zenon, <1>3, <1>4, <1>6, PartsNext

LEMMA CapsPollKeys ==
  ASSUME KeyInv, update_controller_caps
  PROVE  KeyInv'
<1>0. RestOK /\ HoldOK /\ MatrixOK /\ PrefixOK
  BY Zenon, Parts
<1>1. UNCHANGED <<matrix, held, prefix, off, fingers, shift_used, nav, requests, warm_left>>
  BY DEF update_controller_caps, matrixVars, navVars, sequenceVars, mainVars
<1>2. UNCHANGED <<due, follow, caps, nav_poweroff, arrow, chord, warm, import_wake>>
  BY Zenon DEF update_controller_caps, capsVars, navVars, sequenceVars, mainVars
<1>3. RestOK' /\ caps \in BOOLEAN
  BY Zenon, <1>0, <1>1, <1>2 DEF RestOK
<1>4. HoldOK'
  BY Zenon, <1>0, <1>1, <1>3, CapsContext DEF update_controller_caps
<1>5. MatrixOK' /\ PrefixOK'
  BY Zenon, <1>0, <1>1, PrefixStays DEF MatrixOK
<1> QED
  BY Zenon, <1>3, <1>4, <1>5, PartsNext

LEMMA RequestKeys ==
  ASSUME KeyInv, NEW request \in Requests, TakeRequest(request)
  PROVE  KeyInv'
<1>0. RestOK /\ HoldOK /\ MatrixOK /\ PrefixOK
  BY Zenon, Parts
<1>1. UNCHANGED <<held, contextVars, prefix, off, fingers, shift_used, nav, warm_left>>
      /\ requests' \subseteq requests
  BY DEF TakeRequest, navVars, sequenceVars
<1>2. UNCHANGED <<due, follow, caps, nav_poweroff, arrow, chord, warm>>
  BY Zenon DEF TakeRequest, capsVars, navVars, sequenceVars
<1>3. import_wake' = TRUE \/ import_wake' = import_wake
  BY Zenon DEF TakeRequest
<1>4. RestOK'
  BY Zenon, <1>0, <1>1, <1>2, <1>3 DEF RestOK
<1>5. matrix' \subseteq matrix \union {"on"}
  BY Zenon DEF TakeRequest
<1>6. "on" \in ActionKeys /\ "on" \in Codes
  BY CodeNames
<1>7. MatrixOK' /\ PrefixOK'
  BY Zenon, <1>0, <1>1, <1>5, <1>6, PrefixStays DEF MatrixOK
<1> QED
  BY Zenon, <1>0, <1>1, <1>4, <1>7, HoldSame, PartsNext

LEMMA ImportWakeKeys ==
  ASSUME KeyInv, ImportWakeUp
  PROVE  KeyInv'
<1>0. RestOK /\ HoldOK /\ MatrixOK /\ PrefixOK
  BY Zenon, Parts
<1>1. UNCHANGED <<held, contextVars, prefix, off, fingers, shift_used, nav, warm_left, requests>>
      /\ matrix' \subseteq matrix
  BY DEF ImportWakeUp, navVars, sequenceVars
<1>2. UNCHANGED <<due, follow, caps, nav_poweroff, arrow, chord, warm>> /\ import_wake' = FALSE
  BY Zenon DEF ImportWakeUp, capsVars, navVars, sequenceVars
<1>3. RestOK'
  BY Zenon, <1>0, <1>1, <1>2 DEF RestOK
<1>4. MatrixOK' /\ PrefixOK'
  BY Zenon, <1>0, <1>1, PrefixStays DEF MatrixOK
<1> QED
  BY Zenon, <1>0, <1>1, <1>3, <1>4, HoldSame, PartsNext

(* An event moves one finger.                                              *)
LEMMA FingerMoves ==
  ASSUME RestOK, NEW key, Pressed(key) \/ Released(key)
  PROVE  fingers' \subseteq Keys /\ due' = FALSE
BY Zenon DEF RestOK, Pressed, Released, Poll

LEMMA ShiftsUsed ==
  ASSUME RestOK, UseShifts
  PROVE  shift_used' \subseteq Shifts
BY Zenon DEF RestOK, UseShifts

LEMMA EventTurns ==
  ASSUME PrefixOK, NEW key, Pressed(key) \/ Released(key)
  PROVE  prefix = Idle
BY Zenon, EventIsIdle DEF Pressed, Released

(* Events that press and release nothing.                                  *)
LEMMA QuietKeys ==
  ASSUME KeyInv, UNCHANGED <<contextVars, capsVars, matrixVars, navVars, sequenceVars>>,
         fingers' \subseteq Keys, due' \in BOOLEAN, shift_used' \subseteq Shifts,
         arrow' \in BOOLEAN, chord' \in BOOLEAN, requests' \subseteq Requests,
         import_wake' \in BOOLEAN
  PROVE  KeyInv'
<1>0. RestOK /\ HoldOK /\ MatrixOK /\ PrefixOK
  BY Zenon, Parts
<1>1. UNCHANGED <<matrix, held, prefix, off, nav, warm_left>>
  BY DEF matrixVars, navVars, sequenceVars
<1>2. UNCHANGED <<follow, caps, nav_poweroff, warm>>
  BY Zenon DEF capsVars, navVars, sequenceVars
<1>3. RestOK'
  BY Zenon, <1>0, <1>1, <1>2 DEF RestOK
<1>4. MatrixOK' /\ PrefixOK'
  BY Zenon, <1>0, <1>1, PrefixStays DEF MatrixOK
<1> QED
  BY Zenon, <1>0, <1>1, <1>3, <1>4, HoldSame, PartsNext

LEMMA QuietEvents ==
  ASSUME KeyInv,
         \/ CtrlArrow \/ AltEscRelease
         \/ \E key \in Keys : IgnoredPress(key) \/ IgnoredRelease(key) \/ CtrlFunction(key)
  PROVE  KeyInv'
<1>0. RestOK
  BY Zenon, Parts
<1>1. /\ arrow \in BOOLEAN /\ chord \in BOOLEAN /\ import_wake \in BOOLEAN
      /\ shift_used \subseteq Shifts /\ requests \subseteq Requests
  BY Zenon, <1>0 DEF RestOK
<1>2. "speed" \in Requests /\ "import" \in Requests /\ "save" \in Requests
  BY DEF Requests
<1>3. CASE CtrlArrow
  <2>1. Pressed("LEFT") /\ requests' \subseteq Requests
    BY Zenon, <1>1, <1>2, <1>3 DEF CtrlArrow
  <2>2. UNCHANGED <<contextVars, capsVars, matrixVars, navVars, sequenceVars>>
        /\ UNCHANGED <<shift_used, arrow, chord, import_wake>>
    BY Zenon, <1>3 DEF CtrlArrow
  <2> QED
    BY Zenon, <1>0, <1>1, <2>1, <2>2, FingerMoves, QuietKeys
<1>4. CASE AltEscRelease
  <2>1. Released("ESC") /\ chord' = FALSE
    BY Zenon, <1>4 DEF AltEscRelease
  <2>2. UNCHANGED <<contextVars, capsVars, matrixVars, navVars, sequenceVars>>
        /\ UNCHANGED <<shift_used, arrow, requests, import_wake>>
    BY Zenon, <1>4 DEF AltEscRelease, mainVars
  <2> QED
    BY Zenon, <1>0, <1>1, <2>1, <2>2, FingerMoves, QuietKeys
<1>5. ASSUME NEW key \in Keys, IgnoredPress(key) PROVE KeyInv'
  <2>1. Pressed(key) /\ shift_used' \subseteq Shifts
    BY Zenon, <1>0, <1>1, <1>5, ShiftsUsed DEF IgnoredPress
  <2>2. UNCHANGED <<contextVars, capsVars, matrixVars, navVars, sequenceVars>>
        /\ UNCHANGED <<arrow, chord, requests, import_wake>>
    BY Zenon, <1>5 DEF IgnoredPress, mainVars
  <2> QED
    BY Zenon, <1>0, <1>1, <2>1, <2>2, FingerMoves, QuietKeys
<1>6. ASSUME NEW key \in Keys, IgnoredRelease(key) PROVE KeyInv'
  <2>1. Released(key)
    BY Zenon, <1>6 DEF IgnoredRelease
  <2>2. UNCHANGED <<contextVars, capsVars, matrixVars, navVars, sequenceVars>>
        /\ UNCHANGED <<shift_used, arrow, chord, requests, import_wake>>
    BY Zenon, <1>6 DEF IgnoredRelease, mainVars
  <2> QED
    BY Zenon, <1>0, <1>1, <2>1, <2>2, FingerMoves, QuietKeys
<1>7. ASSUME NEW key \in Keys, CtrlFunction(key) PROVE KeyInv'
  <2>1. Pressed(key) /\ shift_used' \subseteq Shifts /\ requests' \subseteq Requests
    BY Zenon, <1>0, <1>1, <1>2, <1>7, ShiftsUsed DEF CtrlFunction
  <2>2. UNCHANGED <<contextVars, capsVars, matrixVars, navVars, sequenceVars>>
        /\ UNCHANGED <<arrow, chord, import_wake>>
    BY Zenon, <1>7 DEF CtrlFunction
  <2> QED
    BY Zenon, <1>0, <1>1, <2>1, <2>2, FingerMoves, QuietKeys
<1> QED
  BY Zenon, <1>3, <1>4, <1>5, <1>6, <1>7

(* Events that only change the context.                                    *)
LEMMA ContextEvents ==
  ASSUME KeyInv, NEW key \in Keys, ShiftPress(key) \/ ShiftRelease(key) \/ CapsPress
  PROVE  KeyInv'
<1>0. RestOK /\ HoldOK /\ MatrixOK /\ PrefixOK
  BY Zenon, Parts
<1>1. Tables(held) /\ shift_used \subseteq Shifts /\ caps \in BOOLEAN /\ text \in BOOLEAN
  BY Zenon, <1>0 DEF RestOK, HoldOK
<1>2. UNCHANGED <<matrix, held, prefix, off, nav, warm_left, requests>>
  BY DEF ShiftPress, ShiftRelease, CapsPress, matrixVars, navVars, sequenceVars, mainVars
<1>3. UNCHANGED <<nav_poweroff, warm, arrow, chord, import_wake>>
  BY Zenon DEF ShiftPress, ShiftRelease, CapsPress, navVars, sequenceVars, mainVars
<1>4. fingers' \subseteq Keys /\ due' = FALSE
  BY Zenon, <1>0, FingerMoves DEF ShiftPress, ShiftRelease, CapsPress
<1>5. shift_used' \subseteq Shifts
  BY Zenon, <1>0, <1>1, ShiftsUsed DEF ShiftPress, ShiftRelease, CapsPress
<1>6. follow' \in BOOLEAN /\ caps' \in BOOLEAN
  <2>1. follow \in BOOLEAN /\ (~caps) \in BOOLEAN
    BY Zenon, <1>0 DEF RestOK
  <2> QED
    BY Zenon, <1>1, <2>1 DEF ShiftPress, ShiftRelease, CapsPress, capsVars
<1>7. RestOK'
  BY Zenon, <1>0, <1>2, <1>3, <1>4, <1>5, <1>6 DEF RestOK
<1>8. HoldOK'
  <2>1. CASE ShiftPress(key)
    BY Zenon, <1>0, <1>1, <1>2, <2>1, HoldSame, ClearsContext DEF ShiftPress
  <2>2. CASE ShiftRelease(key)
    <3>1. ShiftCode[key] \in Contexts
      BY <2>2 DEF ShiftRelease, Shifts, ShiftCode, Contexts
    <3> QED
      BY Zenon, <1>0, <1>2, <2>2, <3>1, HoldSame, TogglesContext DEF ShiftRelease
  <2>3. CASE CapsPress
    <3>1. PICK enabled \in {caps', ~text} : apply_controller_caps(enabled)
      BY Zenon, <2>3 DEF CapsPress
    <3>2. enabled \in BOOLEAN
      BY Zenon, <1>1, <1>6
    <3> QED
      BY Zenon, <1>0, <1>2, <3>1, <3>2, CapsContext
  <2> QED
    BY Zenon, <2>1, <2>2, <2>3
<1>9. MatrixOK' /\ PrefixOK'
  BY Zenon, <1>0, <1>2, PrefixStays DEF MatrixOK
<1> QED
  BY Zenon, <1>7, <1>8, <1>9, PartsNext

(* Events that release or press actions.                                   *)
LEMMA FlagTypes ==
  ASSUME RestOK
  PROVE  /\ follow \in BOOLEAN /\ caps \in BOOLEAN /\ nav_poweroff \in BOOLEAN
         /\ arrow \in BOOLEAN /\ chord \in BOOLEAN /\ warm \in BOOLEAN
         /\ import_wake \in BOOLEAN /\ due \in BOOLEAN
         /\ TRUE \in BOOLEAN /\ FALSE \in BOOLEAN
         /\ (~arrow) \in BOOLEAN /\ (follow /\ TRUE) \in BOOLEAN
BY Zenon DEF RestOK

LEMMA RestNext ==
  ASSUME RestOK, fingers' \subseteq Keys, shift_used' \subseteq Shifts,
         due' \in BOOLEAN, follow' \in BOOLEAN, caps' \in BOOLEAN,
         nav_poweroff' \in BOOLEAN, arrow' \in BOOLEAN, chord' \in BOOLEAN,
         warm' \in BOOLEAN, import_wake' \in BOOLEAN,
         nav' \in DrawnCodes \union {NoCode}, warm_left' \in 0 .. WARM_START_TIMEOUT,
         off' \in {"none", "waiting", "teal", "on"}, requests' \subseteq Requests
  PROVE  RestOK'
BY Zenon DEF RestOK

LEMMA RestTypes ==
  ASSUME RestOK
  PROVE  /\ shift_used \subseteq Shifts /\ fingers \subseteq Keys
         /\ nav \in DrawnCodes \union {NoCode} /\ NoCode \in DrawnCodes \union {NoCode}
         /\ warm_left \in 0 .. WARM_START_TIMEOUT
         /\ off \in {"none", "waiting", "teal", "on"} /\ requests \subseteq Requests
         /\ "waiting" \in {"none", "waiting", "teal", "on"}
         /\ "none" \in {"none", "waiting", "teal", "on"}
         /\ {"speed", "import", "save", "reset"} \subseteq Requests
BY Zenon DEF RestOK, Requests

LEMMA PowerKeyKeys ==
  ASSUME KeyInv, PowerKey
  PROVE  KeyInv'
<1>0. RestOK /\ HoldOK /\ MatrixOK /\ PrefixOK
  BY Zenon, Parts
<1>1. prefix = Idle
  BY Zenon, <1>0, EventIsIdle DEF PowerKey
<1>2. /\ HoldOK' /\ MatrixOK' /\ PrefixOK'
      /\ nav' \in DrawnCodes \union {NoCode} /\ off' \in {"none", "waiting", "teal", "on"}
      /\ warm_left' = warm_left /\ nav_poweroff' \in BOOLEAN /\ warm' \in BOOLEAN
  BY Zenon, <1>0, <1>1, PoweroffKeeps DEF PowerKey
<1>3. UNCHANGED <<fingers, shift_used, arrow, chord, follow, caps, requests, import_wake>>
      /\ due' = FALSE
  BY Zenon DEF PowerKey, Poll, capsVars, mainVars
<1>4. RestOK'
  BY Zenon, <1>0, <1>2, <1>3, FlagTypes, RestTypes, RestNext
<1> QED
  BY Zenon, <1>2, <1>4, PartsNext

LEMMA AltEscKeys ==
  ASSUME KeyInv, AltEscPress
  PROVE  KeyInv'
<1>0. RestOK /\ HoldOK /\ MatrixOK /\ PrefixOK
  BY Zenon, Parts
<1>1. prefix = Idle
  BY Zenon, <1>0, EventTurns DEF AltEscPress
<1>2. /\ HoldOK' /\ MatrixOK' /\ PrefixOK'
      /\ nav' \in DrawnCodes \union {NoCode} /\ off' = off
      /\ warm_left' \in 0 .. WARM_START_TIMEOUT /\ nav_poweroff' = nav_poweroff
      /\ warm' \in BOOLEAN
  BY Zenon, <1>0, <1>1, WarmStartKeeps DEF AltEscPress
<1>3. UNCHANGED <<arrow, follow, caps, requests, import_wake>> /\ chord' = TRUE
  BY Zenon DEF AltEscPress, capsVars, mainVars
<1>4. fingers' \subseteq Keys /\ due' = FALSE /\ shift_used' \subseteq Shifts
  BY Zenon, <1>0, FingerMoves, ShiftsUsed DEF AltEscPress
<1>5. RestOK'
  BY Zenon, <1>0, <1>2, <1>3, <1>4, FlagTypes, RestTypes, RestNext
<1> QED
  BY Zenon, <1>2, <1>5, PartsNext

LEMMA CtrlSpaceKeys ==
  ASSUME KeyInv, CtrlSpace
  PROVE  KeyInv'
<1>0. RestOK /\ HoldOK /\ MatrixOK /\ PrefixOK
  BY Zenon, Parts
<1>1. /\ UNCHANGED <<prefix, off, nav, nav_poweroff, warm, warm_left, shift_used, chord>>
      /\ UNCHANGED <<follow, caps, requests, import_wake>>
  BY Zenon DEF CtrlSpace, capsVars, navVars, sequenceVars, mainVars
<1>2. HoldOK' /\ matrix' \subseteq matrix
  BY Zenon, <1>0, FinishHolds DEF CtrlSpace
<1>3. arrow' = ~arrow /\ fingers' \subseteq Keys /\ due' = FALSE
  BY Zenon, <1>0, FingerMoves DEF CtrlSpace
<1>4. RestOK'
  BY ZenonT(60), <1>0, <1>1, <1>3, FlagTypes, RestTypes, RestNext
<1>5. MatrixOK' /\ PrefixOK'
  BY Zenon, <1>0, <1>1, <1>2, PrefixStays DEF MatrixOK
<1> QED
  BY Zenon, <1>2, <1>4, <1>5, PartsNext

LEMMA CtrlEscKeys ==
  ASSUME KeyInv, CtrlEsc
  PROVE  KeyInv'
<1>0. RestOK /\ HoldOK /\ MatrixOK /\ PrefixOK
  BY Zenon, Parts
<1>1. UNCHANGED <<off, nav, nav_poweroff, warm_left, follow, caps, arrow, import_wake>>
  BY Zenon DEF CtrlEsc, capsVars, navVars
<1>2. HoldOK' /\ matrix' \subseteq matrix
  BY Zenon, <1>0, FinishHolds DEF CtrlEsc
<1>3. prefix' = Idle /\ warm' = FALSE /\ chord' = FALSE /\ requests' = requests \union {"reset"}
  BY Zenon DEF CtrlEsc, prefix_sequence_reset
<1>4. fingers' \subseteq Keys /\ due' = FALSE /\ shift_used' \subseteq Shifts
  BY Zenon, <1>0, FingerMoves, ShiftsUsed DEF CtrlEsc
<1>5. requests' \subseteq Requests
  BY Zenon, <1>0, <1>3, RestTypes
<1>6. RestOK'
  BY Zenon, <1>0, <1>1, <1>3, <1>4, <1>5, FlagTypes, RestTypes, RestNext
<1>7. MatrixOK' /\ PrefixOK'
  BY Zenon, <1>0, <1>2, <1>3, PrefixIdle DEF MatrixOK
<1> QED
  BY Zenon, <1>2, <1>6, <1>7, PartsNext

LEMMA ArrowKeys ==
  ASSUME KeyInv, ArrowPress \/ EnterPress
  PROVE  KeyInv'
<1>0. RestOK /\ HoldOK /\ MatrixOK /\ PrefixOK
  BY Zenon, Parts
<1>1. /\ UNCHANGED <<prefix, off, nav, nav_poweroff, warm, warm_left, arrow, chord>>
      /\ UNCHANGED <<follow, caps, requests, import_wake>>
  BY Zenon DEF ArrowPress, EnterPress, capsVars, navVars, sequenceVars, mainVars
<1>2. fingers' \subseteq Keys /\ due' = FALSE /\ shift_used' \subseteq Shifts
  BY Zenon, <1>0, RestTypes, FingerMoves, ShiftsUsed DEF ArrowPress, EnterPress
<1>3. RestOK'
  <2>1. /\ follow' \in BOOLEAN /\ caps' \in BOOLEAN /\ nav_poweroff' \in BOOLEAN
        /\ arrow' \in BOOLEAN /\ chord' \in BOOLEAN /\ warm' \in BOOLEAN
        /\ import_wake' \in BOOLEAN /\ due' \in BOOLEAN
    BY Zenon, <1>0, <1>1, <1>2, FlagTypes
  <2>2. /\ fingers' \subseteq Keys /\ shift_used' \subseteq Shifts /\ requests' \subseteq Requests
        /\ nav' \in DrawnCodes \union {NoCode} /\ warm_left' \in 0 .. WARM_START_TIMEOUT
        /\ off' \in {"none", "waiting", "teal", "on"}
    BY Zenon, <1>0, <1>1, <1>2, RestTypes
  <2> QED
    BY Zenon, <1>0, <2>1, <2>2, RestNext
<1>4. /\ "left" \in ActionKeys /\ "enter" \in ActionKeys
      /\ HP_KEY_MIN_HOLD \in 0 .. MaxHold /\ FALSE \in BOOLEAN
  BY CodeNames, HoldTimes
<1>5. matrix' \subseteq matrix \union ActionKeys
  BY Zenon, <1>4 DEF ArrowPress, EnterPress, begin_hp_action, begin_hp_action_for
<1>6. HoldOK' /\ MatrixOK'
  <2>1. CASE ArrowPress
    <3>1. pending' = pending /\ text' = text /\ users' = users
      BY <2>1 DEF ArrowPress, contextVars
    <3> QED
      BY Zenon, <1>0, <1>4, <2>1, <3>1, BeginHolds DEF ArrowPress, begin_hp_action
  <2>2. CASE EnterPress
    <3>1. /\ begin_hp_action_for("enter", FALSE, HP_KEY_MIN_HOLD)
          /\ UNCHANGED contextVars \/ clear_pending_context
      BY Zenon, <2>2 DEF EnterPress, begin_hp_action
    <3>2. CASE UNCHANGED contextVars
      <4>1. pending' = pending /\ text' = text /\ users' = users
        BY <3>2 DEF contextVars
      <4> QED
        BY Zenon, <1>0, <1>4, <3>1, <4>1, BeginHolds
    <3>3. CASE clear_pending_context
      <4>1. AfterPress(held, "enter", FALSE, held')
        BY Zenon, <1>0, <1>4, <3>1, PressTable DEF begin_hp_action_for, HoldOK
      <4>2. HoldOK'
        BY Zenon, <1>0, <3>3, <4>1, ClearsContext DEF AfterPress
      <4>3. MatrixOK'
        BY Zenon, <1>0, <1>5 DEF MatrixOK, ActionKeys
      <4> QED
        BY <4>2, <4>3
    <3> QED
      BY <3>1, <3>2, <3>3
  <2> QED
    BY <2>1, <2>2
<1>7. PrefixOK'
  BY Zenon, <1>0, <1>1, <1>5, PrefixStays
<1> QED
  BY Zenon, <1>3, <1>6, <1>7, PartsNext

LEMMA PlainKeys ==
  ASSUME KeyInv, NEW key \in Keys, PlainPress(key)
  PROVE  KeyInv'
<1>0. RestOK /\ HoldOK /\ MatrixOK /\ PrefixOK
  BY Zenon, Parts
<1>1. /\ UNCHANGED <<off, nav, nav_poweroff, warm, warm_left, arrow, chord>>
      /\ UNCHANGED <<follow, caps, requests, import_wake>>
  BY Zenon DEF PlainPress, capsVars, navVars, mainVars
<1>2. fingers' \subseteq Keys /\ due' = FALSE /\ shift_used' \subseteq Shifts
  BY Zenon, <1>0, FingerMoves, ShiftsUsed DEF PlainPress
<1>3. RestOK'
  BY Zenon, <1>0, <1>1, <1>2, FlagTypes, RestTypes, RestNext
<1>4. prefix = Idle /\ PlainCode[key] \in ActionKeys
  BY Zenon, <1>0, EventTurns, PlainCodes DEF PlainPress, Plain
<1>5. HoldOK' /\ MatrixOK' /\ PrefixOK'
  <2>1. CASE PressAction(PlainCode[key])
    BY Zenon, <1>0, <1>4, <2>1, ActionPressed
  <2>2. CASE /\ begin_hp_action_for("drop", FALSE, HP_GAME_COMMAND_MIN_HOLD)
             /\ UNCHANGED <<contextVars, prefix>>
    <3>1. "drop" \in ActionKeys /\ HP_GAME_COMMAND_MIN_HOLD \in 0 .. MaxHold /\ FALSE \in BOOLEAN
      BY CodeNames, HoldTimes
    <3>2. pending' = pending /\ text' = text /\ users' = users /\ prefix' = prefix
      BY <2>2 DEF contextVars
    <3>3. HoldOK' /\ MatrixOK'
      BY Zenon, <1>0, <2>2, <3>1, <3>2, BeginHolds
    <3> QED
      BY Zenon, <1>4, <3>2, <3>3, PrefixIdle
  <2> QED
    BY Zenon, <2>1, <2>2 DEF PlainPress
<1> QED
  BY Zenon, <1>3, <1>5, PartsNext

LEMMA ReleaseKeys ==
  ASSUME KeyInv, NEW key \in Keys, ActionRelease(key)
  PROVE  KeyInv'
<1>0. RestOK /\ HoldOK /\ MatrixOK /\ PrefixOK
  BY Zenon, Parts
<1>1. /\ UNCHANGED <<off, nav, nav_poweroff, warm, warm_left, arrow, chord, shift_used, prefix>>
      /\ UNCHANGED <<follow, caps, requests, import_wake>>
  BY Zenon DEF ActionRelease, capsVars, navVars, sequenceVars, mainVars
<1>2. fingers' \subseteq Keys /\ due' = FALSE
  BY Zenon, <1>0, FingerMoves DEF ActionRelease
<1>3. RestOK'
  <2>1. /\ follow' \in BOOLEAN /\ caps' \in BOOLEAN /\ nav_poweroff' \in BOOLEAN
        /\ arrow' \in BOOLEAN /\ chord' \in BOOLEAN /\ warm' \in BOOLEAN
        /\ import_wake' \in BOOLEAN /\ due' \in BOOLEAN
    BY Zenon, <1>0, <1>1, <1>2, FlagTypes
  <2>2. /\ fingers' \subseteq Keys /\ shift_used' \subseteq Shifts /\ requests' \subseteq Requests
        /\ nav' \in DrawnCodes \union {NoCode} /\ warm_left' \in 0 .. WARM_START_TIMEOUT
        /\ off' \in {"none", "waiting", "teal", "on"}
    BY Zenon, <1>0, <1>1, <1>2, RestTypes
  <2> QED
    BY Zenon, <1>0, <2>1, <2>2, RestNext
<1>4. HoldOK' /\ matrix' \subseteq matrix
  BY Zenon, <1>0, RequestHolds DEF ActionRelease
<1>5. MatrixOK' /\ PrefixOK'
  BY Zenon, <1>0, <1>1, <1>4, PrefixStays DEF MatrixOK
<1> QED
  BY Zenon, <1>3, <1>4, <1>5, PartsNext

LEMMA DrawnPressKeys ==
  ASSUME KeyInv, NEW code \in DrawnCodes, DrawnPress(code)
  PROVE  KeyInv'
<1>0. RestOK /\ HoldOK /\ MatrixOK /\ PrefixOK
  BY Zenon, Parts
<1>1. UNCHANGED <<warm, warm_left, arrow, chord, shift_used, caps, requests, import_wake>>
      /\ nav' = code
  BY Zenon DEF DrawnPress, mainVars
<1>2. fingers' \subseteq Keys /\ due' = FALSE /\ prefix = Idle
  BY Zenon, <1>0, FingerMoves, EventTurns DEF DrawnPress
<1>3. code \in Codes /\ nav' \in DrawnCodes \union {NoCode}
  BY Zenon, <1>1, KeyboardAssumption
<1>4. CASE DrawnOff
  <2>1. /\ nav_poweroff' = TRUE /\ clear_pending_context /\ UNCHANGED <<held, prefix, follow>>
        /\ off' = "waiting" \/ off' = "none"
        /\ matrix' \subseteq matrix
    BY Zenon, <1>4 DEF DrawnOff
  <2>2. RestOK'
    BY Zenon, <1>0, <1>1, <1>2, <1>3, <2>1, FlagTypes, RestTypes, RestNext
  <2>3. HoldOK'
    BY Zenon, <1>0, <2>1, ClearsContext DEF HoldOK
  <2>4. MatrixOK' /\ PrefixOK'
    BY Zenon, <1>0, <1>2, <2>1, PrefixIdle DEF MatrixOK
  <2> QED
    BY Zenon, <2>2, <2>3, <2>4, PartsNext
<1>5. CASE code \in Contexts /\ DrawnContext(code)
  <2>1. /\ matrix' = matrix \union {code} /\ toggle_pending_context(code)
        /\ UNCHANGED <<held, nav_poweroff, off, prefix>>
    BY Zenon, <1>5 DEF DrawnContext
  <2>2. follow' \in BOOLEAN
    BY <1>5 DEF DrawnContext
  <2>3. RestOK'
    BY Zenon, <1>0, <1>1, <1>2, <1>3, <2>1, <2>2, FlagTypes, RestTypes, RestNext
  <2>4. HoldOK'
    BY Zenon, <1>0, <1>5, <2>1, TogglesContext
  <2>5. MatrixOK' /\ PrefixOK'
    BY Zenon, <1>0, <1>2, <1>3, <2>1, PrefixIdle DEF MatrixOK
  <2> QED
    BY Zenon, <2>3, <2>4, <2>5, PartsNext
<1>6. CASE /\ code \notin Contexts
           /\ PressAction(code) /\ UNCHANGED <<follow, nav_poweroff, off>>
  <2>1. code \in ActionKeys
    BY Zenon, <1>3, <1>6 DEF ActionKeys
  <2>2. RestOK'
    BY Zenon, <1>0, <1>1, <1>2, <1>3, <1>6, FlagTypes, RestTypes, RestNext
  <2>3. HoldOK' /\ MatrixOK' /\ PrefixOK'
    BY Zenon, <1>0, <1>2, <1>6, <2>1, ActionPressed
  <2> QED
    BY Zenon, <2>2, <2>3, PartsNext
<1> QED
  BY Zenon, <1>4, <1>5, <1>6 DEF DrawnPress

LEMMA DrawnReleaseKeys ==
  ASSUME KeyInv, DrawnRelease
  PROVE  KeyInv'
<1>0. RestOK /\ HoldOK /\ MatrixOK /\ PrefixOK
  BY Zenon, Parts
<1>1. /\ UNCHANGED <<off, warm, warm_left, arrow, chord, shift_used, prefix>>
      /\ UNCHANGED <<follow, caps, requests, import_wake, contextVars>>
      /\ nav' = NoCode /\ nav_poweroff' = FALSE
  BY Zenon DEF DrawnRelease, capsVars, sequenceVars, mainVars
<1>2. fingers' \subseteq Keys /\ due' = FALSE
  BY Zenon, <1>0, FingerMoves DEF DrawnRelease
<1>3. RestOK'
  BY Zenon, <1>0, <1>1, <1>2, FlagTypes, RestTypes, RestNext
<1>4. HoldOK' /\ matrix' \subseteq matrix
  <2>1. CASE UNCHANGED matrixVars
    <3>1. held' = held /\ matrix' = matrix
      BY <2>1 DEF matrixVars
    <3> QED
      BY Zenon, <1>0, <1>1, <3>1, HoldSame
  <2>2. CASE request_hp_action_release(nav)
    BY Zenon, <1>0, <1>1, <2>2, RequestHolds
  <2>3. CASE matrix' = matrix \ {nav} /\ UNCHANGED held
    BY Zenon, <1>0, <1>1, <2>3, HoldSame
  <2> QED
    BY Zenon, <2>1, <2>2, <2>3 DEF DrawnRelease
<1>5. MatrixOK' /\ PrefixOK'
  BY Zenon, <1>0, <1>1, <1>4, PrefixStays DEF MatrixOK
<1> QED
  BY Zenon, <1>3, <1>4, <1>5, PartsNext

LEMMA StutterKeys ==
  ASSUME KeyInv, UNCHANGED vars
  PROVE  KeyInv'
<1>0. RestOK /\ HoldOK /\ MatrixOK /\ PrefixOK
  BY Zenon, Parts
<1>1. /\ UNCHANGED <<off, nav, nav_poweroff, warm, warm_left, arrow, chord, shift_used, prefix>>
      /\ UNCHANGED <<fingers, due, follow, caps, requests, import_wake, contextVars, held, matrix>>
  BY Zenon DEF vars, capsVars, matrixVars, navVars, sequenceVars, mainVars
<1>2. RestOK'
  <2>1. /\ follow' \in BOOLEAN /\ caps' \in BOOLEAN /\ nav_poweroff' \in BOOLEAN
        /\ arrow' \in BOOLEAN /\ chord' \in BOOLEAN /\ warm' \in BOOLEAN
        /\ import_wake' \in BOOLEAN /\ due' \in BOOLEAN
    BY Zenon, <1>0, <1>1, FlagTypes
  <2>2. /\ fingers' \subseteq Keys /\ shift_used' \subseteq Shifts /\ requests' \subseteq Requests
        /\ nav' \in DrawnCodes \union {NoCode} /\ warm_left' \in 0 .. WARM_START_TIMEOUT
        /\ off' \in {"none", "waiting", "teal", "on"}
    BY Zenon, <1>0, <1>1, RestTypes
  <2> QED
    BY Zenon, <1>0, <2>1, <2>2, RestNext
<1>3. MatrixOK' /\ PrefixOK'
  BY Zenon, <1>0, <1>1, PrefixStays DEF MatrixOK
<1> QED
  BY Zenon, <1>0, <1>1, <1>2, <1>3, HoldSame, PartsNext

(* Types, the prefix that is up while its sequence waits, and the users of *)
(* a one-shot context: for every keyboard, table size and duration.        *)
THEOREM KeyInvariant == Spec => []KeyInv
<1>1. Init => KeyInv
  BY InitKeys
<1>2. KeyInv /\ [Next]_vars => KeyInv'
  <2> SUFFICES ASSUME KeyInv, [Next]_vars PROVE KeyInv'
    OBVIOUS
  <2>1. CASE UNCHANGED vars
    BY Zenon, <2>1, StutterKeys
  <2>2. CASE Tick \/ OffPoll \/ BlockedPoll \/ WarmPoll \/ update_controller_caps
    BY Zenon, <2>2, TickKeys, OffPollKeys, ReleasePollKeys, PrefixPollKeys, WarmPollKeys,
       CapsPollKeys DEF BlockedPoll
  <2>3. CASE ImportWakeUp \/ \E request \in Requests : TakeRequest(request)
    BY Zenon, <2>3, ImportWakeKeys, RequestKeys
  <2>4. CASE PowerKey \/ CtrlSpace \/ ArrowPress \/ EnterPress \/ AltEscPress \/ CtrlEsc
    BY Zenon, <2>4, PowerKeyKeys, CtrlSpaceKeys, ArrowKeys, AltEscKeys, CtrlEscKeys
  <2>5. CASE CtrlArrow \/ AltEscRelease
    BY Zenon, <2>5, QuietEvents
  <2>6. CASE CapsPress
    <3>1. "CAPS" \in Keys
      BY Zenon, <2>6 DEF CapsPress, Pressed
    <3> QED
      BY Zenon, <2>6, <3>1, ContextEvents
  <2>7. CASE DrawnRelease \/ \E code \in DrawnCodes : DrawnPress(code)
    BY Zenon, <2>7, DrawnPressKeys, DrawnReleaseKeys
  <2>8. CASE \E key \in Keys : KeyEvent(key)
    BY Zenon, <2>8, QuietEvents, ContextEvents, PlainKeys, ReleaseKeys DEF KeyEvent
  <2> QED
    BY Zenon, <2>1, <2>2, <2>3, <2>4, <2>5, <2>6, <2>7, <2>8 DEF Next, HandleEvent
<1> QED
  BY <1>1, <1>2, PTL DEF Spec

(* While nothing locks Alpha, an action that uses the context is held.     *)
THEOREM OneShotEnds == Spec => []OneShotEndsWithItsAction
<1>1. KeyInv => OneShotEndsWithItsAction
  BY Zenon DEF KeyInv, UserInv, OneShotEndsWithItsAction
<1> QED
  BY <1>1, KeyInvariant, PTL

(* The prefix is up when its action goes down.                             *)
THEOREM PrefixIsUp == Spec => PrefixIsUpAtAction
<1>1. KeyInv /\ [Next]_vars =>
        [prefix.stage = "WAIT_LATCH" /\ prefix'.stage = "IDLE"
           => prefix.prefix_code \notin matrix \/ off # "none"]_vars
  BY DEF KeyInv, PrefixInv
<1> QED
  BY <1>1, KeyInvariant, PTL DEF Spec, PrefixIsUpAtAction

-----------------------------------------------------------------------------
(* The minimum time of a key.                                              *)

Stays ==
  \A code \in (DOMAIN held \intersect matrix) \ {"on"} :
    held[code].left > 0 => code \in matrix'

(* A key that is held is no context, and a key that is due has no time     *)
(* left.                                                                   *)
LEMMA HeldIsAction ==
  ASSUME HoldOK, NEW code \in DOMAIN held
  PROVE  code \in ActionKeys /\ code \notin Contexts /\ code # pending
         /\ code # "rsh" /\ code # NoCode
<1>1. code \in ActionKeys /\ pending \in Contexts \union {NoCode}
  BY Zenon DEF HoldOK, Tables
<1> QED
  BY <1>1, CodeNames, PlainCodes DEF ActionKeys

LEMMA RequestStays ==
  ASSUME NEW code, request_hp_action_release(code)
  PROVE  Stays
BY DEF request_hp_action_release, Stays

LEMMA GrowthStays ==
  ASSUME matrix \subseteq matrix'
  PROVE  Stays
BY Zenon DEF Stays

LEMMA LossStays ==
  ASSUME HoldOK, matrix \ (Contexts \union {"on"}) \subseteq matrix'
  PROVE  Stays
<1> SUFFICES ASSUME NEW code \in (DOMAIN held \intersect matrix) \ {"on"}
             PROVE  code \in matrix'
  BY Zenon DEF Stays
<1>1. code \notin Contexts
  BY Zenon, HeldIsAction
<1> QED
  BY Zenon, <1>1

LEMMA DueStays ==
  ASSUME HoldOK, release_hp_action(DueReleases(held))
  PROVE  Stays
<1> SUFFICES ASSUME NEW code \in (DOMAIN held \intersect matrix) \ {"on"}, held[code].left > 0
             PROVE  code \in matrix'
  BY Zenon DEF Stays
<1>1. code \notin DueReleases(held)
  <2>1. held[code].left \in Nat
    BY SlotFields, HoldTimes DEF HoldOK
  <2> QED
    BY <2>1 DEF DueReleases
<1>2. code # pending
  BY Zenon, HeldIsAction
<1> QED
  BY Zenon, <1>1, <1>2 DEF release_hp_action, Lifted

LEMMA DeliverStays ==
  ASSUME HoldOK, NEW code, Deliver(code)
  PROVE  Stays
<1>1. matrix \ {"on"} \subseteq matrix'
  BY DEF Deliver
<1> QED
  BY Zenon, <1>1 DEF Stays

LEMMA PrefixPollStays ==
  ASSUME KeyInv, PrefixPoll
  PROVE  Stays
<1>0. HoldOK /\ PrefixOK
  BY Zenon, Parts
<1>1. PICK latched \in BOOLEAN, transition \in Transitions :
        prefix_sequence_advance(latched, transition) /\ apply_prefix_transition(transition)
  BY Zenon DEF PrefixPoll
<1>2. prefix.prefix_code \in Contexts
  BY <1>0, <1>1, Advances, PrefixActive
<1>3. CASE transition = "PRESS_ACTION"
  BY <1>0, <1>1, <1>3, DeliverStays DEF apply_prefix_transition
<1>4. CASE transition # "PRESS_ACTION"
  <2>1. matrix \ Contexts \subseteq matrix'
    BY <1>1, <1>2, <1>4 DEF apply_prefix_transition, matrixVars
  <2> QED
    BY Zenon, <1>0, <2>1, LossStays
<1> QED
  BY <1>3, <1>4

LEMMA DrawnPressStays ==
  ASSUME KeyInv, NEW code \in DrawnCodes, DrawnPress(code)
  PROVE  Stays
<1>1. HoldOK
  BY Zenon, Parts
<1>2. "rsh" \in Contexts
  BY DEF Contexts
<1>3. matrix \ OffKeys \subseteq matrix'
  BY DEF DrawnPress, DrawnOff, DrawnContext, PressAction, begin_hp_action,
         begin_hp_action_with_context, begin_hp_action_for
<1> QED
  BY Zenon, <1>1, <1>2, <1>3, LossStays DEF OffKeys

LEMMA DrawnReleaseStays ==
  ASSUME KeyInv, DrawnRelease
  PROVE  Stays
<1>1. HoldOK
  BY Zenon, Parts
<1>2. CASE matrix \ Contexts \subseteq matrix'
  BY Zenon, <1>1, <1>2, LossStays
<1>3. CASE request_hp_action_release(nav)
  BY <1>3, RequestStays
<1> QED
  BY Zenon, <1>2, <1>3 DEF DrawnRelease, matrixVars

LEMMA EventStays ==
  ASSUME KeyInv, HandleEvent,
         ~(PowerKey \/ CtrlSpace \/ AltEscPress \/ CtrlEsc)
  PROVE  Stays
<1>1. CASE CtrlArrow \/ AltEscRelease \/ CapsPress
  BY Zenon, <1>1, GrowthStays DEF CtrlArrow, AltEscRelease, CapsPress, matrixVars
<1>2. CASE ArrowPress \/ EnterPress
  BY Zenon, <1>2, GrowthStays
     DEF ArrowPress, EnterPress, begin_hp_action, begin_hp_action_for
<1>3. ASSUME NEW key \in Keys, KeyEvent(key) PROVE Stays
  <2>1. CASE \/ IgnoredPress(key) \/ IgnoredRelease(key) \/ ShiftPress(key)
             \/ ShiftRelease(key) \/ CtrlFunction(key)
    BY Zenon, <2>1, GrowthStays
       DEF IgnoredPress, IgnoredRelease, ShiftPress, ShiftRelease, CtrlFunction, matrixVars
  <2>2. CASE PlainPress(key)
    BY Zenon, <2>2, GrowthStays
       DEF PlainPress, PressAction, begin_hp_action, begin_hp_action_with_context,
           begin_hp_action_for
  <2>3. CASE ActionRelease(key)
    BY Zenon, <2>3, RequestStays DEF ActionRelease
  <2> QED
    BY Zenon, <1>3, <2>1, <2>2, <2>3 DEF KeyEvent
<1> QED
  BY Zenon, <1>1, <1>2, <1>3, DrawnPressStays, DrawnReleaseStays DEF HandleEvent

(* A key that is held stays down for its minimum time, whatever is pressed *)
(* and released around it: only a step that releases everything is faster. *)
THEOREM HeldLongEnough == Spec => MinimumHold
<1>1. KeyInv /\ [Next]_vars =>
        [\A code \in (DOMAIN held \intersect matrix) \ {"on"} :
           code \notin matrix' /\ held[code].left > 0
             => PowerKey \/ CtrlSpace \/ AltEscPress \/ CtrlEsc
                  \/ TakeRequest("reset")]_vars
  <2> SUFFICES ASSUME KeyInv, Next,
                      ~(PowerKey \/ CtrlSpace \/ AltEscPress \/ CtrlEsc \/ TakeRequest("reset"))
               PROVE  Stays
    BY Zenon DEF Stays
  <2>0. HoldOK
    BY Zenon, Parts
  <2>1. CASE Tick \/ update_controller_caps
    BY Zenon, <2>1, GrowthStays DEF Tick, update_controller_caps, matrixVars
  <2>2. CASE OffPoll
    <3>1. matrix \ (Contexts \union {"on"}) \subseteq matrix'
      BY <2>2 DEF OffPoll, OffKeys, Contexts
    <3> QED
      BY Zenon, <2>0, <3>1, LossStays
  <2>3. CASE BlockedPoll
    BY Zenon, <2>0, <2>3, DueStays, PrefixPollStays DEF BlockedPoll, ReleasePoll
  <2>4. CASE WarmPoll
    BY Zenon, <2>4, GrowthStays DEF WarmPoll, WarmWake, matrixVars
  <2>5. CASE ImportWakeUp
    BY Zenon, <2>0, <2>5, LossStays DEF ImportWakeUp
  <2>6. ASSUME NEW request \in Requests, TakeRequest(request) PROVE Stays
    BY Zenon, <2>6, GrowthStays DEF TakeRequest
  <2> QED
    BY Zenon, <2>1, <2>2, <2>3, <2>4, <2>5, <2>6, EventStays DEF Next
<1> QED
  BY <1>1, KeyInvariant, PTL DEF Spec, MinimumHold

-----------------------------------------------------------------------------
(* The owners of the bits.  start_warm_start leaves s_nav_poweroff_active  *)
(* as it is, so after Alt+Esc on the drawn OFF the next release of Space   *)
(* forgets the key it is on.  Nothing else does:                           *)

WarmStartFindsNoDrawnOff ==
  s_alt /\ "ESC" \in fingers => ~nav_poweroff

(* Only its release ends the ON of an import.                              *)
Woken(c) == c = "on" /\ import_wake

LEMMA WakeStays == [Next]_vars /\ ~ImportWakeUp => (import_wake => import_wake')
BY Zenon DEF Next, vars, mainVars, Tick, OffPoll, BlockedPoll, ReleasePoll, PrefixPoll,
   WarmPoll, update_controller_caps, HandleEvent, TakeRequest, PowerKey, CtrlSpace,
   CtrlArrow, ArrowPress, EnterPress, AltEscPress, AltEscRelease, CapsPress, CtrlEsc,
   DrawnPress, DrawnRelease, KeyEvent, IgnoredPress, IgnoredRelease, ShiftPress,
   ShiftRelease, CtrlFunction, PlainPress, ActionRelease

(* Only an OFF key starts an OFF sequence.                                 *)
LEMMA OffStays ==
  ASSUME OffInv, [Next]_vars
  PROVE  OffInv'
<1>1. CASE UNCHANGED off
  BY <1>1 DEF OffInv, OffRequestable
<1>2. CASE OffPoll
  BY <1>2 DEF OffPoll, OffInv, OffRequestable
<1>3. CASE PowerKey
  BY Zenon, <1>3 DEF PowerKey, OffInv, OffRequestable
<1>4. ASSUME NEW code \in DrawnCodes, DrawnPress(code), ~UNCHANGED off
      PROVE  OffInv'
  BY Zenon, <1>4 DEF DrawnPress, DrawnContext, Pressed, OffInv, OffRequestable
<1>5. CASE AltEscPress
  <2>1. off' = off
    BY Zenon, <1>5 DEF AltEscPress, start_warm_start, sequenceVars
  <2> QED
    BY Zenon, <1>1, <2>1
<1> QED
  BY Zenon, <1>1, <1>2, <1>3, <1>4, <1>5
     DEF Next, vars, sequenceVars, Tick, BlockedPoll, ReleasePoll, PrefixPoll, WarmPoll,
         update_controller_caps, HandleEvent, ImportWakeUp, TakeRequest, CtrlSpace,
         CtrlArrow, ArrowPress, EnterPress, AltEscRelease, CapsPress, CtrlEsc,
         DrawnRelease, KeyEvent, IgnoredPress, IgnoredRelease, ShiftPress,
         ShiftRelease, CtrlFunction, PlainPress, ActionRelease

LEMMA OffInvariant == Spec => []OffInv
<1>1. Init => OffInv
  BY DEF Init, OffInv
<1>2. OffInv /\ [Next]_vars => OffInv'
  BY OffStays
<1> QED
  BY <1>1, <1>2, PTL DEF Spec

LEMMA EmptyFits ==
  ASSUME NEW keys, DOMAIN keys = {}, NEW code
  PROVE  Fits(keys, code)
BY FS_EmptySet, CapacityAssumption DEF Fits

LEMMA StillOwned ==
  ASSUME OwnerInv, DOMAIN held \subseteq DOMAIN held', UNCHANGED <<navVars, prefix>>,
         matrix' \subseteq matrix \union SequenceKeys \union DOMAIN held',
         import_wake => import_wake'
  PROVE  OwnerInv'
<1>1. nav' = nav /\ (nav_poweroff' => nav_poweroff)
  BY Zenon DEF navVars
<1>2. EveryBitHasAnOwner'
  BY Zenon, <1>1 DEF OwnerInv, EveryBitHasAnOwner
<1> QED
  BY Zenon, <1>1, <1>2 DEF OwnerInv

LEMMA OwnedUntilReleased ==
  ASSUME HoldOK, OwnerInv, NEW codes \in SUBSET DOMAIN held, release_hp_action(codes),
         UNCHANGED navVars, prefix' = prefix, import_wake => import_wake'
  PROVE  OwnerInv'
<1>1. DOMAIN held' = DOMAIN held \ codes
  BY DEF release_hp_action, Popped
<1>2. matrix' \subseteq matrix \ codes
  BY Zenon DEF release_hp_action, Lifted
<1>3. nav' = nav /\ (nav_poweroff' => nav_poweroff)
  BY Zenon DEF navVars
<1>4. EveryBitHasAnOwner'
  BY Zenon, <1>1, <1>2, <1>3 DEF OwnerInv, EveryBitHasAnOwner
<1> QED
  BY Zenon, <1>3, <1>4 DEF OwnerInv

LEMMA RequestOwns ==
  ASSUME NEW code, request_hp_action_release(code)
  PROVE  DOMAIN held' = DOMAIN held /\ matrix' \subseteq matrix
BY DEF request_hp_action_release, held_keys_request_release

LEMMA BeginOwns ==
  ASSUME NEW code, NEW hold, NEW consumes, begin_hp_action_for(code, consumes, hold)
  PROVE  DOMAIN held \subseteq DOMAIN held' /\ matrix' \subseteq matrix \union DOMAIN held'
BY DEF begin_hp_action_for, held_keys_press

LEMMA DeliverOwns ==
  ASSUME NEW code, Deliver(code)
  PROVE  DOMAIN held \subseteq DOMAIN held' /\ matrix' \subseteq matrix \union DOMAIN held'
BY DEF Deliver, held_keys_press, held_keys_request_release

LEMMA PressOwns ==
  ASSUME NEW code, PressAction(code), prefix = Idle, EveryBitHasAnOwner,
         nav' = nav \/ (nav = NoCode /\ NoCode \notin Contexts),
         import_wake => import_wake'
  PROVE  EveryBitHasAnOwner'
<1>1. prefix.stage = "IDLE" /\ "HOLD" # "IDLE"
  BY DEF Idle
<1>2. \A c \in matrix \ SequenceKeys :
        c \in DOMAIN held \/ (c \in Contexts /\ c = nav') \/ Woken(c)
  BY Zenon, <1>1 DEF EveryBitHasAnOwner, Woken
<1>3. CASE DOMAIN held \subseteq DOMAIN held' /\ matrix' \subseteq matrix \union DOMAIN held'
  BY Zenon, <1>2, <1>3 DEF EveryBitHasAnOwner, Woken
<1>4. CASE /\ prefix_sequence_start(pending, code)
           /\ matrix' = matrix \union {pending}
           /\ UNCHANGED <<held, contextVars>>
  <2>1. prefix'.stage = "HOLD" /\ prefix'.prefix_code = pending
    BY <1>4 DEF prefix_sequence_start, FirstHold
  <2> QED
    BY Zenon, <1>2, <1>4, <2>1 DEF EveryBitHasAnOwner, Woken
<1> QED
  BY Zenon, <1>3, <1>4, BeginOwns
     DEF PressAction, begin_hp_action, begin_hp_action_with_context

LEMMA PrefixPollOwns ==
  ASSUME KeyInv, OwnerInv, PrefixPoll,
         import_wake => import_wake'
  PROVE  OwnerInv'
<1>0. HoldOK /\ PrefixOK /\ EveryBitHasAnOwner
  BY Zenon, Parts DEF OwnerInv
<1>1. nav' = nav /\ (nav_poweroff' => nav_poweroff)
  BY Zenon DEF PrefixPoll, navVars
<1>2. PICK latched \in BOOLEAN, transition \in Transitions :
        prefix_sequence_advance(latched, transition) /\ apply_prefix_transition(transition)
  BY Zenon DEF PrefixPoll
<1>3. /\ prefix # Idle /\ PrefixTypeOK'
      /\ \/ transition = "NONE" /\ prefix'.stage = prefix.stage /\ SameCodes
         \/ /\ transition = "RELEASE_PREFIX" /\ prefix.stage = "HOLD"
            /\ prefix'.stage = "WAIT_LATCH" /\ SameCodes
         \/ /\ transition = "PRESS_PREFIX" /\ prefix.stage = "WAIT_LATCH"
            /\ prefix'.stage = "HOLD" /\ SameCodes
         \/ transition = "PRESS_ACTION" /\ prefix.stage = "WAIT_LATCH" /\ prefix' = Idle
  BY Zenon, <1>0, <1>2, Advances
<1>4. EveryBitHasAnOwner'
  <2>1. CASE transition = "NONE"
    BY <1>0, <1>1, <1>2, <1>3, <2>1
       DEF apply_prefix_transition, matrixVars, EveryBitHasAnOwner, SameCodes, Woken
  <2>2. CASE transition = "RELEASE_PREFIX"
    BY <1>0, <1>1, <1>2, <1>3, <2>2
       DEF apply_prefix_transition, EveryBitHasAnOwner, SameCodes, Woken
  <2>3. CASE transition = "PRESS_PREFIX"
    BY <1>0, <1>1, <1>2, <1>3, <2>3
       DEF apply_prefix_transition, EveryBitHasAnOwner, SameCodes, Woken
  <2>4. CASE transition = "PRESS_ACTION"
    <3>1. Deliver(prefix.action_code) /\ prefix.stage = "WAIT_LATCH"
      BY <1>2, <1>3, <2>4 DEF apply_prefix_transition
    <3>2. \A c \in matrix \ SequenceKeys :
        c \in DOMAIN held \/ (c \in Contexts /\ c = nav) \/ Woken(c)
      BY <1>0, <3>1 DEF EveryBitHasAnOwner, Woken
    <3> QED
      BY Zenon, <1>1, <3>1, <3>2, DeliverOwns DEF EveryBitHasAnOwner, Woken
  <2> QED
    BY <1>3, <2>1, <2>2, <2>3, <2>4
<1> QED
  BY Zenon, <1>0, <1>1, <1>4 DEF OwnerInv

(* No bit but the keys of the OFF sequence and a new prefix is left by a   *)
(* release of all.                                                         *)
LEMMA AllAreUp ==
  ASSUME EveryBitHasAnOwner, prefix = Idle,
         \A c \in matrix' \ AllUp : prefix'.stage = "HOLD" /\ c = prefix'.prefix_code
  PROVE  EveryBitHasAnOwner'
<1>1. prefix.stage = "IDLE" /\ "HOLD" # "IDLE"
  BY DEF Idle
<1>2. ASSUME NEW c \in matrix' \ SequenceKeys, c \in AllUp
      PROVE  FALSE
  <2>1. c \in matrix /\ c \notin DOMAIN held /\ c \notin Contexts /\ c # "on"
    BY Zenon, <1>2 DEF AllUp, Lifted
  <2> QED
    BY Zenon, <1>1, <1>2, <2>1 DEF EveryBitHasAnOwner, Woken
<1> QED
  BY Zenon, <1>2 DEF EveryBitHasAnOwner, Woken

LEMMA SequencesSame ==
  ASSUME OwnerInv, UNCHANGED <<matrixVars, navVars, sequenceVars>>,
         import_wake => import_wake'
  PROVE  OwnerInv'
<1>1. held' = held /\ matrix' = matrix /\ prefix' = prefix /\ UNCHANGED navVars
  BY Zenon DEF matrixVars, sequenceVars
<1> QED
  BY Zenon, <1>1, StillOwned

LEMMA PowerKeyOwns ==
  ASSUME KeyInv, OwnerInv, PowerKey,
         import_wake => import_wake'
  PROVE  OwnerInv'
<1>1. prefix = Idle /\ EveryBitHasAnOwner
  BY Zenon, Parts, EventIsIdle DEF PowerKey, OwnerInv
<1>2. CASE UNCHANGED <<contextVars, matrixVars, navVars, sequenceVars>>
  BY Zenon, <1>2, SequencesSame
<1>3. CASE matrix' = AllUp /\ nav_poweroff' = FALSE
  <2>1. \A c \in matrix' \ AllUp : FALSE
    BY <1>3
  <2>2. EveryBitHasAnOwner'
    BY Zenon, <1>1, <2>1, AllAreUp
  <2> QED
    BY Zenon, <1>3, <2>2 DEF OwnerInv
<1> QED
  BY Zenon, <1>2, <1>3 DEF PowerKey, start_graceful_poweroff

LEMMA AltEscOwns ==
  ASSUME KeyInv, OwnerInv, AltEscPress, WarmStartFindsNoDrawnOff',
         import_wake => import_wake'
  PROVE  OwnerInv'
<1>1. prefix = Idle /\ EveryBitHasAnOwner
  BY Zenon, Parts, EventTurns DEF AltEscPress, OwnerInv
<1>2. ~nav_poweroff'
  BY Zenon DEF AltEscPress, s_alt, Pressed, WarmStartFindsNoDrawnOff
<1>3. CASE UNCHANGED <<contextVars, matrixVars, navVars, sequenceVars>>
  BY Zenon, <1>3, SequencesSame
<1>4. CASE matrix' = AllUp \union {"rsh"} /\ prefix' = FirstHold("rsh", "on")
  <2>1. \A c \in matrix' \ AllUp : prefix'.stage = "HOLD" /\ c = prefix'.prefix_code
    BY <1>4 DEF FirstHold
  <2>2. EveryBitHasAnOwner'
    BY Zenon, <1>1, <2>1, AllAreUp
  <2> QED
    BY Zenon, <1>2, <2>2 DEF OwnerInv
<1> QED
  BY Zenon, <1>3, <1>4 DEF AltEscPress, start_warm_start

LEMMA FinishOwns ==
  ASSUME KeyInv, OwnerInv, CtrlSpace \/ CtrlEsc,
         import_wake => import_wake'
  PROVE  OwnerInv'
<1>0. HoldOK /\ PrefixOK
  BY Zenon, Parts
<1>1. prefix = Idle
  BY Zenon, <1>0, EventTurns DEF CtrlSpace, CtrlEsc
<1>2. prefix' = prefix /\ UNCHANGED navVars
  BY Zenon, <1>1 DEF CtrlSpace, CtrlEsc, sequenceVars, prefix_sequence_reset
<1>3. DOMAIN held \in SUBSET DOMAIN held
  OBVIOUS
<1> QED
  BY Zenon, <1>0, <1>2, <1>3, OwnedUntilReleased DEF CtrlSpace, CtrlEsc, finish_hp_action

LEMMA DrawnPressOwns ==
  ASSUME KeyInv, OwnerInv, NEW code \in DrawnCodes, DrawnPress(code),
         import_wake => import_wake'
  PROVE  OwnerInv'
<1>0. RestOK /\ HoldOK /\ PrefixOK /\ EveryBitHasAnOwner
  BY Zenon, Parts DEF OwnerInv
<1>1. /\ prefix = Idle /\ prefix.stage = "IDLE" /\ "HOLD" # "IDLE"
      /\ nav = NoCode /\ nav' = code /\ NoCode \notin Contexts /\ NoCode # "on"
  BY <1>0, EventTurns DEF DrawnPress, Idle, NoCode, Contexts
<1>2. nav_poweroff = FALSE
  BY Zenon, <1>0, <1>1, FlagTypes DEF OwnerInv
<1>3. \A c \in matrix \ SequenceKeys : c \in DOMAIN held \/ Woken(c)
  BY Zenon, <1>0, <1>1 DEF EveryBitHasAnOwner, Woken
<1>4. CASE code = "on" /\ DrawnOff
  <2>1. held' = held /\ matrix' \subseteq matrix
    BY Zenon, <1>4 DEF DrawnOff
  <2> QED
    BY Zenon, <1>1, <1>3, <1>4, <2>1 DEF OwnerInv, EveryBitHasAnOwner, Woken
<1>5. CASE code \in Contexts /\ DrawnContext(code)
  <2>1. held' = held /\ matrix' = matrix \union {code} /\ nav_poweroff' = FALSE
    BY Zenon, <1>2, <1>5 DEF DrawnContext
  <2> QED
    BY Zenon, <1>1, <1>3, <1>5, <2>1 DEF OwnerInv, EveryBitHasAnOwner, Woken
<1>6. CASE PressAction(code) /\ UNCHANGED <<follow, nav_poweroff, off>>
  <2>1. EveryBitHasAnOwner'
    BY Zenon, <1>0, <1>1, <1>6, PressOwns
  <2>2. nav_poweroff' = FALSE
    BY Zenon, <1>2, <1>6
  <2> QED
    BY Zenon, <2>1, <2>2 DEF OwnerInv
<1> QED
  BY Zenon, <1>4, <1>5, <1>6 DEF DrawnPress

LEMMA DrawnReleaseOwns ==
  ASSUME KeyInv, OwnerInv, DrawnRelease,
         import_wake => import_wake'
  PROVE  OwnerInv'
<1>0. PrefixOK /\ EveryBitHasAnOwner
  BY Zenon, Parts DEF OwnerInv
<1>1. /\ prefix = Idle /\ prefix.stage = "IDLE" /\ "HOLD" # "IDLE" /\ "on" \notin Contexts
  BY <1>0, EventTurns DEF DrawnRelease, Idle, Contexts
<1>2. \A c \in matrix \ SequenceKeys :
        c \in DOMAIN held \/ (c \in Contexts /\ c = nav) \/ Woken(c)
  BY Zenon, <1>0, <1>1 DEF EveryBitHasAnOwner, Woken
<1>3. \A c \in matrix' \ SequenceKeys : c \in DOMAIN held' \/ Woken(c)
  <2>1. CASE nav_poweroff /\ UNCHANGED matrixVars
    <3>1. held' = held /\ matrix' = matrix /\ nav = "on"
      BY Zenon, <2>1 DEF matrixVars, OwnerInv
    <3> QED
      BY Zenon, <1>1, <1>2, <3>1
  <2>2. CASE nav \notin Contexts /\ request_hp_action_release(nav)
    BY Zenon, <1>2, <2>2, RequestOwns
  <2>3. CASE matrix' = matrix \ {nav} /\ UNCHANGED held
    BY Zenon, <1>2, <2>3
  <2> QED
    BY Zenon, <2>1, <2>2, <2>3 DEF DrawnRelease
<1>4. nav_poweroff' = FALSE
  BY Zenon DEF DrawnRelease
<1> QED
  BY Zenon, <1>3, <1>4 DEF OwnerInv, EveryBitHasAnOwner, Woken

LEMMA KeyEventOwns ==
  ASSUME KeyInv, OwnerInv, NEW key \in Keys, KeyEvent(key),
         import_wake => import_wake'
  PROVE  OwnerInv'
<1>0. PrefixOK
  BY Zenon, Parts
<1>1. CASE \/ IgnoredPress(key) \/ IgnoredRelease(key) \/ ShiftPress(key)
           \/ ShiftRelease(key) \/ CtrlFunction(key)
  BY Zenon, <1>1, SequencesSame
     DEF IgnoredPress, IgnoredRelease, ShiftPress, ShiftRelease, CtrlFunction
<1>2. CASE ActionRelease(key)
  <2>1. prefix' = prefix /\ UNCHANGED navVars
    BY Zenon, <1>2 DEF ActionRelease, sequenceVars
  <2>2. DOMAIN held' = DOMAIN held /\ matrix' \subseteq matrix
    BY Zenon, <1>2, RequestOwns DEF ActionRelease
  <2> QED
    BY Zenon, <2>1, <2>2, StillOwned
<1>3. CASE PlainPress(key)
  <2>1. prefix = Idle /\ nav' = nav /\ (nav_poweroff' => nav_poweroff)
    BY Zenon, <1>0, <1>3, EventTurns DEF PlainPress, navVars
  <2>2. CASE PressAction(PlainCode[key])
    <3>1. EveryBitHasAnOwner'
      BY Zenon, <2>1, <2>2, PressOwns DEF OwnerInv
    <3> QED
      BY Zenon, <2>1, <3>1 DEF OwnerInv
  <2>3. CASE /\ begin_hp_action_for("drop", FALSE, HP_GAME_COMMAND_MIN_HOLD)
             /\ UNCHANGED <<contextVars, prefix>>
    <3>1. prefix' = prefix /\ UNCHANGED navVars
      BY Zenon, <1>3, <2>3 DEF PlainPress
    <3>2. DOMAIN held \subseteq DOMAIN held' /\ matrix' \subseteq matrix \union DOMAIN held'
      BY Zenon, <2>3, BeginOwns
    <3> QED
      BY Zenon, <3>1, <3>2, StillOwned
  <2> QED
    BY Zenon, <1>3, <2>2, <2>3 DEF PlainPress
<1> QED
  BY Zenon, <1>1, <1>2, <1>3 DEF KeyEvent

(* Where a warm start finds no drawn OFF the invariant is inductive.       *)
THEOREM OwnerInvariant == Spec /\ []WarmStartFindsNoDrawnOff => []OwnerInv
<1>1. Init => OwnerInv
  BY DEF Init, OwnerInv, EveryBitHasAnOwner
<1>2. KeyInv /\ OwnerInv /\ OffInv /\ [Next]_vars /\ WarmStartFindsNoDrawnOff'
        => OwnerInv'
  <2> SUFFICES ASSUME KeyInv, OwnerInv, OffInv, [Next]_vars, WarmStartFindsNoDrawnOff'
               PROVE  OwnerInv'
    OBVIOUS
  <2>10. CASE ImportWakeUp
    BY Zenon, <2>10 DEF ImportWakeUp, OwnerInv, EveryBitHasAnOwner, navVars, sequenceVars
  <2> SUFFICES ASSUME ~ImportWakeUp PROVE OwnerInv'
    BY Zenon, <2>10
  <2>11. import_wake => import_wake'
    BY Zenon, WakeStays
  <2>0. HoldOK
    BY Zenon, Parts
  <2>1. CASE UNCHANGED vars
    BY Zenon, <2>1, <2>11, SequencesSame DEF vars
  <2>2. CASE Tick \/ update_controller_caps
    <3>1. UNCHANGED <<navVars, prefix>> /\ matrix' = matrix
      BY Zenon, <2>2 DEF Tick, update_controller_caps, matrixVars, sequenceVars
    <3>2. DOMAIN held' = DOMAIN held
      BY <2>2 DEF Tick, update_controller_caps, Elapse, matrixVars
    <3> QED
      BY Zenon, <2>11, <3>1, <3>2, StillOwned
  <2>3. CASE OffPoll
    <3>1. OffKeys \subseteq SequenceKeys
      BY <2>3 DEF OffPoll, OffInv, SequenceKeys
    <3>2. matrix' \subseteq matrix \union OffKeys
      BY Zenon, <2>3 DEF OffPoll, OffKeys
    <3> QED
      BY Zenon, <2>3, <2>11, <3>1, <3>2, StillOwned DEF OffPoll
  <2>4. CASE ReleasePoll
    <3>1. UNCHANGED navVars /\ prefix' = prefix
      BY Zenon, <2>4 DEF ReleasePoll, sequenceVars
    <3> QED
      BY Zenon, <2>0, <2>4, <2>11, <3>1, DueAreHeld, OwnedUntilReleased DEF ReleasePoll
  <2>5. CASE WarmPoll
    <3>1. Fits(held, "on")
      BY <2>5, EmptyFits DEF WarmPoll, held_keys_empty
    <3>2. DOMAIN held \subseteq DOMAIN held' /\ matrix' \subseteq matrix \union DOMAIN held'
      BY <2>5, <3>1 DEF WarmPoll, WarmWake, matrixVars, held_keys_press,
                  held_keys_request_release
    <3> QED
      BY Zenon, <2>5, <2>11, <3>2, StillOwned DEF WarmPoll
  <2>6. ASSUME NEW request \in Requests, TakeRequest(request) PROVE OwnerInv'
    <3>1. UNCHANGED <<navVars, prefix>> /\ held' = held
      BY Zenon, <2>6 DEF TakeRequest, sequenceVars
    <3>2. CASE matrix' \subseteq matrix
      BY Zenon, <2>11, <3>1, <3>2, StillOwned
    <3>3. CASE matrix' = matrix \union {"on"} /\ import_wake' = TRUE
      BY Zenon, <3>1, <3>3 DEF OwnerInv, EveryBitHasAnOwner, Woken, navVars
    <3> QED
      BY Zenon, <2>6, <3>2, <3>3 DEF TakeRequest
  <2>7. CASE CtrlArrow \/ AltEscRelease \/ CapsPress
    BY Zenon, <2>7, <2>11, SequencesSame DEF CtrlArrow, AltEscRelease, CapsPress
  <2>8. CASE ArrowPress \/ EnterPress
    <3>1. UNCHANGED <<navVars, prefix>>
      BY Zenon, <2>8 DEF ArrowPress, EnterPress, sequenceVars
    <3>2. DOMAIN held \subseteq DOMAIN held' /\ matrix' \subseteq matrix \union DOMAIN held'
      BY Zenon, <2>8, BeginOwns DEF ArrowPress, EnterPress, begin_hp_action
    <3> QED
      BY Zenon, <2>11, <3>1, <3>2, StillOwned
  <2>9. CASE HandleEvent
    BY Zenon, <2>7, <2>8, <2>9, <2>11, PowerKeyOwns, AltEscOwns, FinishOwns, DrawnPressOwns,
       DrawnReleaseOwns, KeyEventOwns DEF HandleEvent
  <2> QED
    BY Zenon, <2>1, <2>2, <2>3, <2>4, <2>5, <2>6, <2>9, <2>11, PrefixPollOwns DEF Next, BlockedPoll
<1> QED
  BY <1>1, <1>2, KeyInvariant, OffInvariant, PTL DEF Spec

(* Each bit of the matrix belongs to an action, to the drawn key Space is  *)
(* on or to the prefix sequence, in every behaviour in which Alt+Esc is    *)
(* not pressed on the drawn OFF.                                           *)
THEOREM EveryBitIsOwned ==
  Spec /\ []WarmStartFindsNoDrawnOff => []EveryBitHasAnOwner
<1>1. OwnerInv => EveryBitHasAnOwner
  BY DEF OwnerInv
<1> QED
  BY <1>1, OwnerInvariant, PTL

-----------------------------------------------------------------------------
(* The fingers on the keys.  The release of a key that Ctrl or Alt changes *)
(* is dropped while the modifier is down, so the action pressed before it  *)
(* stays down.  As long as no such key is down together with its modifier, *)
(* every held key has a finger on it or its release asked for.             *)

ModifiersAlone ==
  /\ s_ctrl => fingers \intersect {"SPACE", "LEFT", "ESC", "F8", "F10"} = {}
  /\ s_alt => "ESC" \notin fingers

(* With a finger on a key that Ctrl changes, Ctrl is up.                   *)
LEMMA NotModified ==
  ASSUME ModifiersAlone, NEW key \in {"SPACE", "LEFT", "ESC", "F8", "F10"}, key \in fingers
  PROVE  ~s_ctrl
BY Zenon DEF ModifiersAlone

LEMMA PressingStays ==
  ASSUME NEW c, NEW k \in Pressing(c), k \in fingers',
         k = "SPACE" => nav' = nav /\ ~nav_poweroff'
  PROVE  Pressing(c)' # {}
<1>1. k \in Pressing(c)'
  BY Zenon DEF Pressing
<1> QED
  BY <1>1

LEMMA SpacePresses ==
  ASSUME NEW c, "SPACE" \in Pressing(c)
  PROVE  nav = c /\ ~nav_poweroff
BY PlainCodes DEF Pressing

(* No finger leaves a key that presses, nothing new is held.               *)
LEMMA FingersStay ==
  ASSUME HoldOK, FingerInv,
         \A c \in DOMAIN held \union {prefix.action_code} : Pressing(c) \subseteq fingers',
         nav # NoCode => "SPACE" \in fingers',
         nav' = nav, nav_poweroff' = nav_poweroff, ~arrow', ~chord', ~warm',
         \A c \in DOMAIN held' : c \in DOMAIN held /\ (held[c].requested => held'[c].requested),
         prefix'.stage # "IDLE" =>
           prefix.stage # "IDLE" /\ prefix'.action_code = prefix.action_code
  PROVE  FingerInv'
<1>1. \A c, k : k \in Pressing(c) /\ k = "SPACE" => ~nav_poweroff'
  BY Zenon, SpacePresses
<1>2. ASSUME NEW c \in DOMAIN held'
      PROVE  held'[c].requested \/ Pressing(c)' # {}
  <2>1. CASE held[c].requested
    BY Zenon, <2>1
  <2>2. CASE Pressing(c) # {}
    <3>1. PICK k : k \in Pressing(c)
      BY <2>2
    <3> QED
      BY Zenon, <1>1, <3>1, PressingStays
  <2> QED
    BY Zenon, <2>1, <2>2 DEF FingerInv
<1>3. prefix_sequence_active' => Pressing(prefix.action_code)' # {}
  <2> HAVE prefix_sequence_active'
  <2>1. prefix_sequence_active
    BY Zenon DEF prefix_sequence_active
  <2>2. PICK k : k \in Pressing(prefix.action_code)
    BY <2>1 DEF FingerInv
  <2>3. prefix'.action_code = prefix.action_code
    BY Zenon DEF prefix_sequence_active
  <2>4. k \in fingers' /\ (k = "SPACE" => nav' = nav /\ ~nav_poweroff')
    BY Zenon, <1>1, <2>2
  <2>5. k \in Pressing(prefix.action_code)'
    BY Zenon, <2>2, <2>3, <2>4 DEF Pressing
  <2> QED
    BY <2>5
<1> QED
  BY Zenon, <1>2, <1>3 DEF FingerInv

(* An action that goes down has a finger on its key.                       *)
LEMMA BeginFingers ==
  ASSUME HoldOK, FingerInv, NEW code \in ActionKeys, NEW hold \in 0 .. MaxHold,
         NEW consumes \in BOOLEAN, held' = held_keys_press(held, code, hold, consumes),
         Pressing(code)' # {},
         \A c \in DOMAIN held : Pressing(c) # {} => Pressing(c)' # {}
  PROVE  \A c \in DOMAIN held' : held'[c].requested \/ Pressing(c)' # {}
<1>1. AfterPress(held, code, consumes, held')
  BY Zenon, PressTable DEF HoldOK
<1>2. DOMAIN held' \subseteq DOMAIN held \union {code}
      /\ \A c \in DOMAIN held : held'[c].requested = held[c].requested
  BY Zenon, <1>1 DEF AfterPress
<1>3. \A c \in DOMAIN held : held[c].requested \/ Pressing(c) # {}
  BY Zenon DEF FingerInv
<1> QED
  BY Zenon, <1>2, <1>3

LEMMA PressFingers ==
  ASSUME HoldOK, FingerInv, prefix = Idle, NEW code \in ActionKeys, PressAction(code),
         Pressing(code)' # {},
         \A c \in DOMAIN held : Pressing(c) # {} => Pressing(c)' # {},
         nav' # NoCode => "SPACE" \in fingers', ~arrow', ~chord', ~warm'
  PROVE  FingerInv'
<1>1. HP_KEY_MIN_HOLD \in 0 .. MaxHold /\ TRUE \in BOOLEAN /\ FALSE \in BOOLEAN
      /\ Idle.stage = "IDLE"
  BY HoldTimes DEF Idle
<1>2. CASE begin_hp_action(code) /\ UNCHANGED <<contextVars, prefix>>
  <2>1. \A c \in DOMAIN held' : held'[c].requested \/ Pressing(c)' # {}
    BY Zenon, <1>1, <1>2, BeginFingers DEF begin_hp_action, begin_hp_action_for
  <2>2. ~prefix_sequence_active'
    BY Zenon, <1>1, <1>2 DEF prefix_sequence_active
  <2> QED
    BY Zenon, <2>1, <2>2 DEF FingerInv
<1>3. CASE begin_hp_action_with_context(code) /\ UNCHANGED prefix
  <2>1. \A c \in DOMAIN held' : held'[c].requested \/ Pressing(c)' # {}
    BY Zenon, <1>1, <1>3, BeginFingers DEF begin_hp_action_with_context, begin_hp_action_for
  <2>2. ~prefix_sequence_active'
    BY Zenon, <1>1, <1>3 DEF prefix_sequence_active
  <2> QED
    BY Zenon, <2>1, <2>2 DEF FingerInv
<1>4. CASE /\ prefix_sequence_start(pending, code)
           /\ UNCHANGED <<held, contextVars>>
  <2>1. prefix'.action_code = code
    BY <1>4 DEF prefix_sequence_start, FirstHold
  <2>2. Pressing(prefix.action_code)' # {}
    BY <2>1 DEF Pressing
  <2>3. \A c \in DOMAIN held' : held'[c].requested \/ Pressing(c)' # {}
    BY Zenon, <1>4 DEF FingerInv
  <2> QED
    BY Zenon, <2>2, <2>3 DEF FingerInv
<1> QED
  BY Zenon, <1>2, <1>3, <1>4 DEF PressAction

(* A release asks for the one code its key stands for.                     *)
LEMMA RequestFingers ==
  ASSUME HoldOK, FingerInv, prefix' = Idle, NEW code, request_hp_action_release(code),
         \A c \in DOMAIN held \ {code} : Pressing(c) # {} => Pressing(c)' # {},
         nav' # NoCode => "SPACE" \in fingers', ~arrow', ~chord', ~warm'
  PROVE  FingerInv'
<1>1. AfterRequest(held, code, held')
  BY Zenon, RequestTable DEF HoldOK, request_hp_action_release
<1>2. \A c \in DOMAIN held' : held'[c].requested \/ Pressing(c)' # {}
  <2> TAKE c \in DOMAIN held'
  <2>1. CASE c = code
    BY Zenon, <1>1, <2>1 DEF AfterRequest
  <2>2. CASE c # code
    <3>1. c \in DOMAIN held \ {code} /\ held'[c] = held[c]
      BY Zenon, <1>1, <2>2 DEF AfterRequest
    <3> QED
      BY Zenon, <3>1 DEF FingerInv
  <2> QED
    BY <2>1, <2>2
<1>3. ~prefix_sequence_active'
  BY DEF prefix_sequence_active, Idle
<1> QED
  BY Zenon, <1>2, <1>3 DEF FingerInv

(* Nothing is held any more.                                               *)
LEMMA NothingHeldFingers ==
  ASSUME DOMAIN held' = {}, nav' = NoCode, prefix' = Idle, ~arrow', ~chord', ~warm'
  PROVE  FingerInv'
<1>1. ~prefix_sequence_active'
  BY DEF prefix_sequence_active, Idle
<1> QED
  BY Zenon, <1>1 DEF FingerInv

LEMMA PollFingers ==
  ASSUME KeyInv, FingerInv,
         \/ Tick \/ OffPoll \/ ReleasePoll \/ update_controller_caps \/ ImportWakeUp
         \/ \E request \in Requests : TakeRequest(request)
  PROVE  FingerInv'
<1>0. HoldOK
  BY Zenon, Parts
<1>1. /\ UNCHANGED <<fingers, nav, nav_poweroff, arrow, chord, prefix>>
      /\ warm' = warm
  BY Zenon DEF Tick, OffPoll, ReleasePoll, update_controller_caps, ImportWakeUp,
               TakeRequest, navVars, sequenceVars
<1>2. \A c \in DOMAIN held' : c \in DOMAIN held /\ (held[c].requested => held'[c].requested)
  <2>1. CASE Tick
    <3>1. AfterTime(held, held')
      BY Zenon, <1>0, <2>1, ElapseTable DEF Tick, HoldOK
    <3> QED
      BY Zenon, <3>1 DEF AfterTime
  <2>2. CASE ReleasePoll
    <3>1. AfterPop(held, DueReleases(held), held')
      BY Zenon, <1>0, <2>2, PopTable DEF ReleasePoll, release_hp_action, HoldOK
    <3>2. DOMAIN held' \subseteq DOMAIN held /\ \A c \in DOMAIN held' : held'[c] = held[c]
      BY Zenon, <3>1 DEF AfterPop
    <3> QED
      BY Zenon, <3>2
  <2>3. CASE \/ OffPoll \/ update_controller_caps \/ ImportWakeUp
             \/ \E request \in Requests : TakeRequest(request)
    <3>1. held' = held
      BY Zenon, <2>3 DEF OffPoll, update_controller_caps, ImportWakeUp, TakeRequest, matrixVars
    <3> QED
      BY Zenon, <3>1
  <2> QED
    BY Zenon, <2>1, <2>2, <2>3
<1>3. \A c : Pressing(c) \subseteq fingers'
  BY Zenon, <1>1 DEF Pressing
<1>4. /\ nav # NoCode => "SPACE" \in fingers'
      /\ ~arrow' /\ ~chord' /\ ~warm'
      /\ prefix'.stage # "IDLE" =>
           prefix.stage # "IDLE" /\ prefix'.action_code = prefix.action_code
      /\ nav' = nav /\ nav_poweroff' = nav_poweroff
  BY Zenon, <1>1 DEF FingerInv
<1> QED
  BY Zenon, <1>0, <1>2, <1>3, <1>4, FingersStay

LEMMA PrefixPollFingers ==
  ASSUME KeyInv, FingerInv, PrefixPoll
  PROVE  FingerInv'
<1>0. HoldOK /\ PrefixOK
  BY Zenon, Parts
<1>1. /\ UNCHANGED <<fingers, nav, nav_poweroff, arrow, chord>>
      /\ warm' = warm
  BY Zenon DEF PrefixPoll, navVars
<1>2. PICK latched \in BOOLEAN, transition \in Transitions :
        prefix_sequence_advance(latched, transition) /\ apply_prefix_transition(transition)
  BY Zenon DEF PrefixPoll
<1>3. /\ prefix # Idle
      /\ \/ transition # "PRESS_ACTION" /\ SameCodes
         \/ transition = "PRESS_ACTION" /\ prefix' = Idle
  BY <1>0, <1>2, Advances
<1>4. prefix.stage # "IDLE" /\ prefix.action_code \in ActionKeys
  BY Zenon, <1>0, <1>3, PrefixActive
<1>5. /\ nav # NoCode => "SPACE" \in fingers'
      /\ ~arrow' /\ ~chord' /\ ~warm' /\ ~warm
      /\ nav' = nav /\ nav_poweroff' = nav_poweroff
  BY Zenon, <1>1 DEF FingerInv
<1>6. CASE transition # "PRESS_ACTION"
  <2>1. held' = held
    BY <1>2, <1>6 DEF apply_prefix_transition, matrixVars
  <2>2. prefix'.action_code = prefix.action_code
    BY <1>3, <1>6 DEF SameCodes
  <2>3. \A c : Pressing(c) \subseteq fingers'
    BY Zenon, <1>1 DEF Pressing
  <2> QED
    BY Zenon, <1>0, <1>4, <1>5, <2>1, <2>2, <2>3, FingersStay
<1>7. CASE transition = "PRESS_ACTION"
  <2>1. Deliver(prefix.action_code) /\ prefix' = Idle
    BY <1>2, <1>3, <1>7 DEF apply_prefix_transition
  <2>2. held' = held_keys_press(held, prefix.action_code, HP_KEY_MIN_HOLD, pending # NoCode)
    BY Zenon, <1>5, <2>1 DEF Deliver
  <2>3. \A c : Pressing(c)' = Pressing(c)
    BY Zenon, <1>1 DEF Pressing
  <2>4. Pressing(prefix.action_code) # {}
    BY Zenon, <1>4 DEF FingerInv, prefix_sequence_active
  <2> DEFINE code == prefix.action_code
  <2>5. PICK k : k = code
    OBVIOUS
  <2>6. HP_KEY_MIN_HOLD \in 0 .. MaxHold /\ (pending # NoCode) \in BOOLEAN
    BY HoldTimes
  <2>7. k \in ActionKeys /\ held' = held_keys_press(held, k, HP_KEY_MIN_HOLD, pending # NoCode)
        /\ Pressing(k)' # {} /\ \A c \in DOMAIN held : Pressing(c) # {} => Pressing(c)' # {}
    BY Zenon, <1>4, <2>2, <2>3, <2>4, <2>5
  <2>8. \A c \in DOMAIN held' : held'[c].requested \/ Pressing(c)' # {}
    BY Zenon, <1>0, <2>6, <2>7, BeginFingers
  <2>9. ~prefix_sequence_active'
    BY <2>1 DEF prefix_sequence_active, Idle
  <2> QED
    BY Zenon, <1>5, <2>8, <2>9 DEF FingerInv
<1> QED
  BY <1>6, <1>7

LEMMA PowerKeyFingers ==
  ASSUME KeyInv, FingerInv, PowerKey
  PROVE  FingerInv'
<1>0. HoldOK /\ prefix = Idle
  BY Zenon, Parts, EventIsIdle DEF PowerKey
<1>1. fingers' = fingers /\ UNCHANGED <<arrow, chord>>
  BY Zenon DEF PowerKey
<1>2. CASE UNCHANGED <<contextVars, matrixVars, navVars, sequenceVars>>
  <2>1. held' = held /\ prefix' = prefix /\ nav' = nav /\ nav_poweroff' = nav_poweroff
        /\ warm' = warm
    BY Zenon, <1>2 DEF matrixVars, navVars, sequenceVars
  <2>2. \A c : Pressing(c) \subseteq fingers'
    BY Zenon, <1>1 DEF Pressing
  <2>3. ~arrow' /\ ~chord' /\ ~warm' /\ (nav # NoCode => "SPACE" \in fingers')
    BY Zenon, <1>1, <2>1 DEF FingerInv
  <2> QED
    BY Zenon, <1>0, <2>1, <2>2, <2>3, FingersStay
<1>3. CASE ReleaseEverything /\ prefix_sequence_reset /\ warm' = FALSE
  <2>1. DOMAIN held' = {} /\ nav' = NoCode /\ prefix' = Idle
    BY Zenon, <1>3, NoKeysTable DEF ReleaseEverything, prefix_sequence_reset
  <2>2. ~arrow' /\ ~chord' /\ ~warm'
    BY Zenon, <1>1, <1>3 DEF FingerInv
  <2> QED
    BY Zenon, <2>1, <2>2, NothingHeldFingers
<1> QED
  BY Zenon, <1>2, <1>3 DEF PowerKey, start_graceful_poweroff

(* A finger on a shift, on an arrow or on Caps presses no HP key.          *)
LEMMA SilentFingers ==
  ASSUME HoldOK, FingerInv, prefix = Idle, prefix' = prefix, UNCHANGED <<held, navVars>>,
         UNCHANGED <<arrow, chord, warm>>,
         NEW key,
         \/ fingers' = fingers \union {key}
         \/ /\ fingers' = fingers \ {key}
            /\ key \in {"SHL", "SHR", "LEFT", "CTRL", "ALT", "CAPS"} \/ (key = "SPACE" /\ nav = NoCode)
  PROVE  FingerInv'
<1>1. nav' = nav /\ nav_poweroff' = nav_poweroff /\ held' = held
  BY Zenon DEF navVars
<1>2. prefix.stage = "IDLE"
  BY DEF Idle
<1>3. ~arrow' /\ ~chord' /\ ~warm'
  BY Zenon DEF FingerInv
<1>4. CASE fingers' = fingers \union {key}
  <2>1. \A c : Pressing(c) \subseteq fingers'
    BY Zenon, <1>4 DEF Pressing
  <2>2. nav # NoCode => "SPACE" \in fingers'
    BY Zenon, <1>4 DEF FingerInv
  <2> QED
    BY Zenon, <1>1, <1>2, <1>3, <2>1, <2>2, FingersStay
<1>5. CASE /\ fingers' = fingers \ {key}
           /\ \/ key \in {"SHL", "SHR", "LEFT", "CTRL", "ALT", "CAPS"}
              \/ key = "SPACE" /\ nav = NoCode
  <2>1. ASSUME NEW c, c # NoCode, NEW k \in Pressing(c)
        PROVE  k \in fingers \ {key}
    <3>1. /\ k \in fingers
          /\ \/ k \in DOMAIN PlainCode
             \/ k = "ENTER"
             \/ k = "SPACE" /\ nav # NoCode
      BY Zenon, <2>1 DEF Pressing
    <3>2. key \notin DOMAIN PlainCode /\ key # "ENTER" /\ (key = "SPACE" => nav = NoCode)
      BY <1>5, CodeNames
    <3> QED
      BY Zenon, <3>1, <3>2
  <2>2. \A c \in DOMAIN held : c # NoCode
    BY Zenon, HeldIsAction
  <2>3. nav # NoCode => "SPACE" \in fingers'
    <3>1. nav # NoCode => key # "SPACE"
      BY <1>5
    <3> QED
      BY Zenon, <1>5, <3>1 DEF FingerInv
  <2>4. \A c \in DOMAIN held : Pressing(c) # {} => Pressing(c)' # {}
    <3> TAKE c \in DOMAIN held
    <3> HAVE Pressing(c) # {}
    <3>1. PICK k : k \in Pressing(c)
      OBVIOUS
    <3>2. k \in fingers'
      BY Zenon, <1>5, <2>1, <2>2, <3>1
    <3>3. k = "SPACE" => nav' = nav /\ ~nav_poweroff'
      BY Zenon, <1>1, <3>1, SpacePresses
    <3> QED
      BY Zenon, <3>1, <3>2, <3>3, PressingStays
  <2>5. ~prefix_sequence_active'
    BY Zenon, <1>2 DEF prefix_sequence_active
  <2>6. \A c \in DOMAIN held' : held'[c].requested \/ Pressing(c)' # {}
    BY Zenon, <1>1, <2>4 DEF FingerInv
  <2> QED
    BY Zenon, <1>1, <1>3, <2>3, <2>5, <2>6 DEF FingerInv
<1> QED
  BY Zenon, <1>4, <1>5

LEMMA SilentEvents ==
  ASSUME ModifiersAlone, KeyInv, FingerInv, NEW key \in Keys,
         \/ IgnoredPress(key) \/ IgnoredRelease(key) \/ ShiftPress(key) \/ ShiftRelease(key)
         \/ CapsPress
  PROVE  FingerInv'
<1>0. HoldOK /\ PrefixOK /\ RestOK
  BY Zenon, Parts
<1>1. prefix = Idle
  BY Zenon, <1>0, EventTurns
     DEF IgnoredPress, IgnoredRelease, ShiftPress, ShiftRelease, CapsPress
<1>2. prefix' = prefix /\ UNCHANGED <<held, navVars, arrow, chord, warm>>
  BY Zenon DEF IgnoredPress, IgnoredRelease, ShiftPress, ShiftRelease, CapsPress,
               matrixVars, sequenceVars
<1>3. {"SHL", "SHR"} = Shifts
  BY DEF Shifts
<1>4. \/ fingers' = fingers \union {key}
      \/ fingers' = fingers \union {"CAPS"}
      \/ /\ fingers' = fingers \ {key}
         /\ \/ key \in {"SHL", "SHR", "LEFT", "CTRL", "ALT", "CAPS"}
            \/ key = "SPACE" /\ nav = NoCode
  <2>1. CASE IgnoredPress(key) \/ ShiftPress(key) \/ CapsPress
    BY Zenon, <2>1 DEF IgnoredPress, ShiftPress, CapsPress, Pressed
  <2>2. CASE IgnoredRelease(key)
    <3>1. Ignored(key) /\ key \in fingers /\ fingers' = fingers \ {key}
      BY Zenon, <2>2 DEF IgnoredRelease, Released
    <3>2. ~(s_ctrl /\ key \in {"SPACE", "LEFT", "F8", "F10"})
      BY Zenon, <3>1, NotModified
    <3> QED
      BY <3>1, <3>2 DEF Ignored
  <2>3. CASE ShiftRelease(key)
    BY Zenon, <1>3, <2>3 DEF ShiftRelease, Released
  <2> QED
    BY Zenon, <2>1, <2>2, <2>3
<1> QED
  BY Zenon, <1>0, <1>1, <1>2, <1>4, SilentFingers

(* One more finger: those that pressed a code still do.                    *)
LEMMA FingerAdded ==
  ASSUME NEW key, fingers' = fingers \union {key},
         (nav' = nav /\ nav_poweroff' = nav_poweroff) \/ nav = NoCode
  PROVE  \A c : c # NoCode /\ Pressing(c) # {} => Pressing(c)' # {}
<1> SUFFICES ASSUME NEW c, c # NoCode, NEW k \in Pressing(c)
             PROVE  Pressing(c)' # {}
  BY Zenon
<1>1. k \in fingers'
  BY Zenon DEF Pressing
<1>2. k = "SPACE" => nav' = nav /\ ~nav_poweroff'
  BY Zenon, SpacePresses
<1> QED
  BY Zenon, <1>1, <1>2, PressingStays

(* One finger less, which stood for another code.                          *)
LEMMA FingerRemoved ==
  ASSUME NEW key, NEW c, fingers' = fingers \ {key}, key \notin Pressing(c),
         (nav' = nav /\ nav_poweroff' = nav_poweroff) \/ key = "SPACE",
         Pressing(c) # {}
  PROVE  Pressing(c)' # {}
<1>1. PICK k : k \in Pressing(c)
  OBVIOUS
<1>2. k \in fingers' /\ k # key
  BY Zenon, <1>1 DEF Pressing
<1>3. k = "SPACE" => nav' = nav /\ ~nav_poweroff'
  BY Zenon, <1>1, <1>2, SpacePresses
<1> QED
  BY Zenon, <1>1, <1>2, <1>3, PressingStays

LEMMA EnterFingers ==
  ASSUME KeyInv, FingerInv, EnterPress
  PROVE  FingerInv'
<1>0. HoldOK /\ PrefixOK
  BY Zenon, Parts
<1>1. prefix = Idle /\ prefix' = prefix /\ fingers' = fingers \union {"ENTER"}
      /\ UNCHANGED <<nav, nav_poweroff, arrow, chord, warm>>
  BY Zenon, <1>0, EventTurns DEF EnterPress, Pressed, navVars, sequenceVars
<1>2. "enter" \in ActionKeys /\ HP_KEY_MIN_HOLD \in 0 .. MaxHold /\ FALSE \in BOOLEAN
  BY CodeNames, HoldTimes
<1>3. "ENTER" \in Pressing("enter")'
  BY Zenon, <1>1 DEF Pressing
<1>4. Pressing("enter")' # {}
  BY <1>3
<1>5. \A c \in DOMAIN held : Pressing(c) # {} => Pressing(c)' # {}
  BY Zenon, <1>0, <1>1, HeldIsAction, FingerAdded
<1>6. \A c \in DOMAIN held' : held'[c].requested \/ Pressing(c)' # {}
  BY Zenon, <1>0, <1>2, <1>4, <1>5, BeginFingers
     DEF EnterPress, begin_hp_action, begin_hp_action_for
<1>7. ~prefix_sequence_active'
  BY <1>1 DEF prefix_sequence_active, Idle
<1>8. ~arrow' /\ ~chord' /\ ~warm' /\ (nav' # NoCode => "SPACE" \in fingers')
  BY Zenon, <1>1 DEF FingerInv
<1> QED
  BY Zenon, <1>6, <1>7, <1>8 DEF FingerInv

LEMMA PlainFingers ==
  ASSUME KeyInv, FingerInv, NEW key \in Keys, PlainPress(key)
  PROVE  FingerInv'
<1>0. HoldOK /\ PrefixOK
  BY Zenon, Parts
<1>1. prefix = Idle /\ fingers' = fingers \union {key}
      /\ UNCHANGED <<nav, nav_poweroff, arrow, chord, warm>> /\ key \in DOMAIN PlainCode
  BY Zenon, <1>0, EventTurns DEF PlainPress, Plain, Pressed, navVars
<1>2. PressAction(PlainCode[key]) /\ PlainCode[key] \in ActionKeys
  BY Zenon, <1>1, PlainCodes DEF PlainPress, GameCommand, FingerInv
<1>3. key \in Pressing(PlainCode[key])'
  BY Zenon, <1>1 DEF Pressing
<1>4. Pressing(PlainCode[key])' # {}
  BY <1>3
<1>5. \A c \in DOMAIN held : Pressing(c) # {} => Pressing(c)' # {}
  BY Zenon, <1>0, <1>1, HeldIsAction, FingerAdded
<1>6. ~arrow' /\ ~chord' /\ ~warm' /\ (nav' # NoCode => "SPACE" \in fingers')
  BY Zenon, <1>1 DEF FingerInv
<1> QED
  BY Zenon, <1>0, <1>1, <1>2, <1>4, <1>5, <1>6, PressFingers

LEMMA ReleaseFingers ==
  ASSUME KeyInv, FingerInv, NEW key \in Keys, ActionRelease(key)
  PROVE  FingerInv'
<1>0. HoldOK /\ PrefixOK
  BY Zenon, Parts
<1>1. prefix' = Idle /\ fingers' = fingers \ {key}
      /\ UNCHANGED <<nav, nav_poweroff, arrow, chord, warm>>
  BY Zenon, <1>0, EventTurns DEF ActionRelease, Released, navVars, sequenceVars
<1>2. key \in DOMAIN PlainCode \/ key = "ENTER"
  BY Zenon DEF ActionRelease, Plain, FingerInv
<1>3. key # "SPACE" /\ ReleaseCode(key) = IF key = "ENTER" THEN "enter" ELSE PlainCode[key]
  BY <1>2, CodeNames DEF ReleaseCode
<1>4. ASSUME NEW c \in DOMAIN held \ {ReleaseCode(key)}
      PROVE  key \notin Pressing(c)
  BY <1>2, <1>3, CodeNames DEF Pressing
<1>5. \A c \in DOMAIN held \ {ReleaseCode(key)} : Pressing(c) # {} => Pressing(c)' # {}
  BY Zenon, <1>1, <1>4, FingerRemoved
<1>6. ~arrow' /\ ~chord' /\ ~warm' /\ (nav' # NoCode => "SPACE" \in fingers')
  BY Zenon, <1>1, <1>3 DEF FingerInv
<1>7. request_hp_action_release(ReleaseCode(key))
  BY Zenon DEF ActionRelease
<1> QED
  BY Zenon, <1>0, <1>1, <1>5, <1>6, <1>7, RequestFingers

LEMMA DrawnPressFingers ==
  ASSUME KeyInv, OwnerInv, FingerInv, NEW code \in DrawnCodes, DrawnPress(code)
  PROVE  FingerInv'
<1>0. RestOK /\ HoldOK /\ PrefixOK
  BY Zenon, Parts
<1>1. /\ prefix = Idle /\ fingers' = fingers \union {"SPACE"} /\ nav = NoCode /\ nav' = code
      /\ UNCHANGED <<arrow, chord, warm>>
  BY Zenon, <1>0, EventTurns DEF DrawnPress, Pressed
<1>2. nav_poweroff = FALSE
  <2>1. nav # "on"
    BY <1>1 DEF NoCode
  <2> QED
    BY Zenon, <1>0, <2>1, FlagTypes DEF OwnerInv
<1>3. \A c \in DOMAIN held : Pressing(c) # {} => Pressing(c)' # {}
  BY Zenon, <1>0, <1>1, HeldIsAction, FingerAdded
<1>4. ~arrow' /\ ~chord' /\ ~warm' /\ "SPACE" \in fingers'
  BY Zenon, <1>1 DEF FingerInv
<1>5. CASE UNCHANGED <<held, prefix>>
  <2>1. \A c \in DOMAIN held' : held'[c].requested \/ Pressing(c)' # {}
    BY Zenon, <1>3, <1>5 DEF FingerInv
  <2>2. ~prefix_sequence_active'
    BY <1>1, <1>5 DEF prefix_sequence_active, Idle
  <2> QED
    BY Zenon, <1>4, <2>1, <2>2 DEF FingerInv
<1>6. CASE /\ code \notin Contexts
           /\ PressAction(code) /\ UNCHANGED <<follow, nav_poweroff, off>>
  <2>1. code \in ActionKeys
    BY Zenon, <1>6, KeyboardAssumption DEF ActionKeys
  <2>2. "SPACE" \in Pressing(code)'
    BY Zenon, <1>1, <1>2, <1>4, <1>6 DEF Pressing
  <2>3. Pressing(code)' # {}
    BY <2>2
  <2> QED
    BY Zenon, <1>0, <1>1, <1>3, <1>4, <1>6, <2>1, <2>3, PressFingers
<1> QED
  BY Zenon, <1>5, <1>6 DEF DrawnPress, DrawnOff, DrawnContext

LEMMA DrawnReleaseFingers ==
  ASSUME KeyInv, OwnerInv, FingerInv, DrawnRelease
  PROVE  FingerInv'
<1>0. HoldOK /\ PrefixOK
  BY Zenon, Parts
<1>1. /\ prefix = Idle /\ prefix' = prefix /\ fingers' = fingers \ {"SPACE"} /\ nav' = NoCode
      /\ UNCHANGED <<arrow, chord, warm>>
  BY Zenon, <1>0, EventTurns DEF DrawnRelease, Released, sequenceVars
<1>2. \A c : c # nav \/ nav_poweroff => "SPACE" \notin Pressing(c)
  BY Zenon, SpacePresses
<1>3. ~arrow' /\ ~chord' /\ ~warm'
  BY Zenon, <1>1 DEF FingerInv
<1>4. CASE nav \notin Contexts /\ request_hp_action_release(nav)
  <2>1. \A c \in DOMAIN held \ {nav} : Pressing(c) # {} => Pressing(c)' # {}
    BY Zenon, <1>1, <1>2, FingerRemoved
  <2>2. prefix' = Idle /\ (nav' # NoCode => "SPACE" \in fingers')
    BY Zenon, <1>1
  <2> QED
    BY Zenon, <1>0, <1>3, <1>4, <2>1, <2>2, RequestFingers
<1>5. CASE (nav_poweroff \/ nav \in Contexts) /\ UNCHANGED held
  <2>1. \A c \in DOMAIN held : Pressing(c) # {} => Pressing(c)' # {}
    BY Zenon, <1>0, <1>1, <1>2, <1>5, HeldIsAction, FingerRemoved
  <2>2. \A c \in DOMAIN held' : held'[c].requested \/ Pressing(c)' # {}
    BY Zenon, <1>5, <2>1 DEF FingerInv
  <2>3. ~prefix_sequence_active'
    BY <1>1 DEF prefix_sequence_active, Idle
  <2> QED
    BY Zenon, <1>1, <1>3, <2>2, <2>3 DEF FingerInv
<1> QED
  BY Zenon, <1>4, <1>5 DEF DrawnRelease, matrixVars

(* While the modifiers are alone the invariant is inductive.               *)
THEOREM FingerInvariant == Spec /\ []ModifiersAlone => []FingerInv
<1>0. ModifiersAlone => WarmStartFindsNoDrawnOff
  BY Zenon DEF ModifiersAlone, WarmStartFindsNoDrawnOff
<1>1. Init => FingerInv
  BY DEF Init, FingerInv, NoKeys, prefix_sequence_active, Idle
<1>2. /\ KeyInv /\ OwnerInv /\ FingerInv /\ [Next]_vars
      /\ ModifiersAlone /\ ModifiersAlone'
      => FingerInv'
  <2> SUFFICES ASSUME KeyInv, OwnerInv, FingerInv, [Next]_vars, ModifiersAlone, ModifiersAlone'
               PROVE  FingerInv'
    OBVIOUS
  <2>1. CASE UNCHANGED vars
    BY Zenon, <2>1 DEF vars, matrixVars, navVars, sequenceVars, FingerInv, Pressing,
                       prefix_sequence_active
  <2>2. CASE \/ Tick \/ OffPoll \/ ReleasePoll \/ update_controller_caps \/ ImportWakeUp
             \/ \E request \in Requests : TakeRequest(request)
    BY Zenon, <2>2, PollFingers
  <2>3. CASE PrefixPoll
    BY <2>3, PrefixPollFingers
  <2>4. CASE HandleEvent
    <3>1. ~CtrlSpace /\ ~CtrlArrow /\ ~CtrlEsc /\ ~AltEscPress
      BY Zenon DEF CtrlSpace, CtrlArrow, CtrlEsc, AltEscPress, Pressed, s_ctrl, s_alt,
                   ModifiersAlone
    <3>2. ~ArrowPress /\ ~AltEscRelease /\ \A key \in Keys : ~CtrlFunction(key)
      BY Zenon DEF ArrowPress, AltEscRelease, CtrlFunction, Released, Pressed, s_ctrl, s_alt,
                   ModifiersAlone, FingerInv
    <3>3. ASSUME CapsPress PROVE FingerInv'
      <4>1. "CAPS" \in Keys
        BY Zenon, <3>3 DEF CapsPress, Pressed
      <4> QED
        BY Zenon, <3>3, <4>1, SilentEvents
    <3>4. ASSUME NEW key \in Keys, KeyEvent(key) PROVE FingerInv'
      BY Zenon, <3>2, <3>4, SilentEvents, PlainFingers, ReleaseFingers DEF KeyEvent
    <3> QED
      BY Zenon, <2>4, <3>1, <3>2, <3>3, <3>4, PowerKeyFingers, EnterFingers, DrawnPressFingers,
         DrawnReleaseFingers DEF HandleEvent
  <2> QED
    <3>1. ~WarmPoll
      BY Zenon DEF WarmPoll, FingerInv
    <3> QED
      BY Zenon, <2>1, <2>2, <2>3, <2>4, <3>1 DEF Next, BlockedPoll
<1> QED
  BY <1>0, <1>1, <1>2, OwnerInvariant, KeyInvariant, PTL DEF Spec

(* No key is stuck in any behaviour in which no key is down together with  *)
(* a modifier that changes it.                                             *)
THEOREM NoKeyIsStuck == Spec /\ []ModifiersAlone => []NoStuckKey
<1>1. FingerInv => NoStuckKey
  <2>1. \A code : Pressing(code) \subseteq Holders(code)
    BY Zenon DEF Pressing, Holders
  <2> QED
    BY Zenon, <2>1 DEF FingerInv, NoStuckKey
<1> QED
  BY <1>1, FingerInvariant, PTL

(* A finger comes only when it is the turn of the events.                  *)
LEMMA PressTakesItsTurn ==
  ASSUME Next, NEW key \in fingers' \ fingers
  PROVE  EventTurn
<1>1. ASSUME NEW k, Pressed(k) \/ Released(k)
      PROVE  EventTurn
  BY Zenon, <1>1 DEF Pressed, Released
<1>2. fingers' # fingers
  OBVIOUS
<1>3. HandleEvent
  BY Zenon, <1>2 DEF Next, Tick, OffPoll, BlockedPoll, ReleasePoll, PrefixPoll, WarmPoll,
                     update_controller_caps, ImportWakeUp, TakeRequest
<1>4. ASSUME NEW k, KeyEvent(k)
      PROVE  EventTurn
  BY Zenon, <1>1, <1>4
     DEF KeyEvent, IgnoredPress, IgnoredRelease, ShiftPress, ShiftRelease, CtrlFunction,
         PlainPress, ActionRelease
<1>5. ASSUME NEW code, DrawnPress(code)
      PROVE  EventTurn
  BY Zenon, <1>1, <1>5 DEF DrawnPress
<1> QED
  BY Zenon, <1>1, <1>3, <1>4, <1>5
     DEF HandleEvent, PowerKey, CtrlSpace, CtrlArrow, ArrowPress, EnterPress, AltEscPress,
         AltEscRelease, CapsPress, CtrlEsc, DrawnRelease

(* When it is the turn of the events, a bit that is down has a finger on   *)
(* its key.                                                                *)
LEMMA DownIsHeld ==
  ASSUME KeyInv, OwnerInv, FingerInv, EventTurn, NEW code \in ActionKeys,
         code \in matrix \ OffKeys
  PROVE  Holders(code) # {}
<1>1. prefix = Idle
  BY Zenon, Parts, EventIsIdle
<1>2. prefix.stage = "IDLE" /\ "HOLD" # "IDLE" /\ code \notin Contexts
  BY <1>1 DEF Idle, ActionKeys
<1>3. code \in DOMAIN held
  BY Zenon, <1>2, SequenceIsOff DEF OwnerInv, EveryBitHasAnOwner, OffKeys
<1>4. ~held[code].requested
  BY Zenon, <1>3 DEF EventTurn, held_keys_release_waiting, Requested
<1>5. Pressing(code) # {} /\ Pressing(code) \subseteq Holders(code)
  BY Zenon, <1>3, <1>4 DEF FingerInv, Pressing, Holders
<1> QED
  BY <1>5

(* While the modifiers are alone every tap is an edge, at any typing speed *)
(* and with any number of fingers.                                         *)
THEOREM TapsAreEdges == Spec /\ []ModifiersAlone => EveryTapIsAnEdge
<1>0. ModifiersAlone => WarmStartFindsNoDrawnOff
  BY Zenon DEF ModifiersAlone, WarmStartFindsNoDrawnOff
<1>1. KeyInv /\ OwnerInv /\ FingerInv /\ KeyInv' /\ [Next]_vars =>
        [\A key \in fingers' \ fingers :
           /\ key \in DOMAIN PlainCode /\ Holders(PlainCode[key]) = {}
                => PlainCode[key] \notin matrix \ OffKeys
           /\ key = "SPACE" /\ nav = NoCode /\ nav' \notin Contexts \union {NoCode}
                /\ Holders(nav') = {}
                => nav' \notin matrix \ OffKeys]_vars
  <2> SUFFICES ASSUME KeyInv, OwnerInv, FingerInv, KeyInv', Next, NEW key \in fingers' \ fingers
               PROVE  /\ key \in DOMAIN PlainCode /\ Holders(PlainCode[key]) = {}
                           => PlainCode[key] \notin matrix \ OffKeys
                      /\ key = "SPACE" /\ nav = NoCode /\ nav' \notin Contexts \union {NoCode}
                           /\ Holders(nav') = {}
                           => nav' \notin matrix \ OffKeys
    BY Zenon
  <2>1. EventTurn
    BY PressTakesItsTurn
  <2>2. key \in DOMAIN PlainCode => PlainCode[key] \in ActionKeys
    BY Zenon, PlainCodes
  <2>3. nav' \notin Contexts \union {NoCode} => nav' \in ActionKeys
    BY Zenon, KeyboardAssumption DEF KeyInv, KeyboardTypeOK, ActionKeys
  <2> QED
    BY Zenon, <2>1, <2>2, <2>3, DownIsHeld
<1> QED
  BY <1>0, <1>1, OwnerInvariant, KeyInvariant, FingerInvariant, PTL DEF Spec, EveryTapIsAnEdge

-----------------------------------------------------------------------------
(* The keyboards without the modifiers need no condition.                  *)

(* On a keyboard without Alt each bit of the matrix has an owner.          *)
THEOREM EveryBitIsOwnedWithoutAlt ==
  ASSUME "ALT" \notin Keys
  PROVE  Spec => []EveryBitHasAnOwner
<1>1. KeyInv => WarmStartFindsNoDrawnOff
  BY Zenon DEF KeyInv, KeyboardTypeOK, WarmStartFindsNoDrawnOff, s_alt
<1> QED
  BY <1>1, KeyInvariant, EveryBitIsOwned, PTL

(* A keyboard without Ctrl and Alt has its modifiers alone.                *)
LEMMA NoModifiers ==
  ASSUME {"CTRL", "ALT"} \intersect Keys = {}
  PROVE  Spec => []ModifiersAlone
<1>1. KeyInv => ModifiersAlone
  BY Zenon DEF KeyInv, KeyboardTypeOK, ModifiersAlone, s_ctrl, s_alt
<1> QED
  BY <1>1, KeyInvariant, PTL

(* On a keyboard without Ctrl and Alt no key is stuck.                     *)
THEOREM NoKeyIsStuckWithoutModifiers ==
  ASSUME {"CTRL", "ALT"} \intersect Keys = {}
  PROVE  Spec => []NoStuckKey
BY NoModifiers, NoKeyIsStuck, PTL

(* On a keyboard without Ctrl and Alt every tap is an edge.                *)
THEOREM TapsAreEdgesWithoutModifiers ==
  ASSUME {"CTRL", "ALT"} \intersect Keys = {}
  PROVE  Spec => EveryTapIsAnEdge
BY NoModifiers, TapsAreEdges, PTL
=============================================================================
