----------------------------- MODULE FormProofs -----------------------------
(***************************************************************************)
(* Form for any fields, values and numbers of items and edits: types, the  *)
(* item in focus is there, what is unsaved is told, and showing arguments  *)
(* another way does not change them.                                       *)
(***************************************************************************)
EXTENDS Form, TLAPS

\* What can be entered for a name and sent.
Sendable(name) == IF name \in Lists THEN ItemValues \cup ItemLists ELSE ItemValues

IsObject(a) ==
    /\ a = [name \in DOMAIN a |-> a[name]]
    /\ DOMAIN a \subseteq Names \cup Others
    /\ \A name \in DOMAIN a \cap Names : a[name] \in Sendable(name)

Types ==
    /\ rawOnly \in BOOLEAN /\ nullItems \in BOOLEAN /\ raw \in BOOLEAN
    /\ dirty \in BOOLEAN /\ panicked \in BOOLEAN
    /\ edits \in 0..MaxEdits
    /\ fields \in [Names -> Field]
    /\ focus \in DOMAIN Fields /\ item \in 1..MaxItems

Objective ==
    /\ text = Invalid \/ IsObject(text)
    /\ extra = [name \in DOMAIN extra |-> extra[name]] /\ DOMAIN extra \subseteq Others

Views == (rawOnly => raw) /\ (panicked => ~raw)

\* The item in focus is there.
ItemShown == ~raw /\ ~panicked =>
    (HasItems(Focused, fields[Focused]) => item <= Len(fields[Focused].items))

\* A form that is not dirty is as it was opened; only a JSON view opens filled in.
Clean ==
    /\ ~rawOnly => loaded = Empty
    /\ ~dirty => /\ Arguments = loaded
                 /\ fields = [name \in Names |-> NewField(name)] /\ extra = Empty

FormInv == Types /\ Objective /\ Views /\ ItemShown /\ Clean

-----------------------------------------------------------------------------
(* Values and drafts.                                                       *)

\* A bounded sequence is a sequence that is short enough.
LEMMA Bounded ==
    ASSUME NEW S, NEW s
    PROVE  s \in SeqOf(S, MaxItems) <=> s \in Seq(S) /\ Len(s) <= MaxItems
  <1>1. ASSUME s \in SeqOf(S, MaxItems) PROVE s \in Seq(S) /\ Len(s) <= MaxItems
    <2>1. PICK n \in 0..MaxItems : s \in [1..n -> S]
      BY <1>1, FormParameters DEF SeqOf
    <2> QED BY <2>1, FormParameters
  <1>2. ASSUME s \in Seq(S), Len(s) <= MaxItems PROVE s \in SeqOf(S, MaxItems)
    <2>1. s \in [1..Len(s) -> S] /\ Len(s) \in 0..MaxItems
      BY <1>2, FormParameters
    <2> QED BY <2>1 DEF SeqOf
  <1> QED BY <1>1, <1>2

\* The editors there are at first.
LEMMA NewFieldTypes ==
    ASSUME NEW name \in Names
    PROVE  NewEditor(name) \in Editors /\ NewField(name) \in Field
  <1>1. NewEditor(name) \in Editors
    BY FormParameters DEF NewEditor, Editors, Texts
  <1>2. <<>> \in SeqOf(Editors, MaxItems)
    BY FormParameters DEF SeqOf
  <1> QED BY <1>1, <1>2 DEF NewField, Field, Presences

\* What fills an editor is what it decodes to.
LEMMA SetDecodes ==
    ASSUME NEW e \in Editors, NEW nullable \in BOOLEAN, NEW v \in ItemValues
    PROVE  Set(e, nullable, v) \in Editors /\ Decoded(Set(e, nullable, v)) = v
  <1>1. v # Draft
    BY FormTexts
  <1>2. v \in Texts
    BY DEF ItemValues, Texts
  <1> QED BY <1>1, <1>2 DEF Set, Decoded, Editors

\* An editor decodes to a value or to nothing.
LEMMA DecodedTypes ==
    ASSUME NEW e \in Editors
    PROVE  Decoded(e) \in ItemValues \cup {Invalid}
  BY DEF Decoded, Editors, Texts, ItemValues

\* field.setValue, then field.value: what a field is filled with is what it holds.
LEMMA FilledHolds ==
    ASSUME NEW name \in Names, NEW f \in Field, NEW v \in Sendable(name), nullItems \in BOOLEAN
    PROVE  /\ Filled(name, f, v) \in Field /\ Filled(name, f, v).state # "omitted"
           /\ Held(name, Filled(name, f, v)) = v
  <1>0. NewEditor(name) \in Editors /\ NewField(name) \in Field
    BY NewFieldTypes
  <1>1. CASE v = Null
    BY <1>1 DEF Filled, Held, Field, Presences
  <1>2. CASE v # Null /\ name \in Lists /\ v \in ItemLists
    <2>1. PICK n \in 0..MaxItems : v \in [1..n -> ItemValues]
      BY <1>2, FormParameters DEF ItemLists, SeqOf
    <2>2. PICK items : items = [i \in DOMAIN v |-> Set(NewEditor(name), nullItems, v[i])]
      OBVIOUS
    <2>3. /\ items \in [1..n -> Editors]
          /\ \A i \in 1..n : Decoded(items[i]) = v[i] /\ v[i] # Invalid
      <3>1. \A i \in 1..n : v[i] \in ItemValues
        BY <2>1
      <3>2. \A i \in 1..n : Set(NewEditor(name), nullItems, v[i]) \in Editors
                            /\ Decoded(Set(NewEditor(name), nullItems, v[i])) = v[i]
        BY <1>0, <3>1, SetDecodes
      <3> QED BY <2>1, <2>2, <3>1, <3>2, FormTexts
    <2>4. items \in SeqOf(Editors, MaxItems)
      BY <2>1, <2>3, FormParameters DEF SeqOf
    <2>5. PICK g : g = [NewField(name) EXCEPT !.state = "included", !.items = items]
      OBVIOUS
    <2>6. Filled(name, f, v) = g
      BY <1>2, <2>2, <2>5 DEF Filled
    <2>7. g \in Field /\ g.state = "included" /\ g.items = items /\ g.json = FALSE
      BY <1>0, <2>4, <2>5 DEF Field, Presences, NewField
    <2>8. Held(name, g) = [i \in 1..n |-> Decoded(items[i])]
      BY <1>2, <2>3, <2>7 DEF Held, IsList
    <2>9. [i \in 1..n |-> Decoded(items[i])] = v
      BY <2>1, <2>3
    <2> QED BY <2>6, <2>7, <2>8, <2>9
  <1>3. CASE v # Null /\ ~(name \in Lists /\ v \in ItemLists)
    <2>1. v \in ItemValues
      BY <1>3 DEF Sendable
    <2>2. PICK e : e = Set(NewEditor(name), FALSE, v)
      OBVIOUS
    <2>3. e \in Editors /\ Decoded(e) = v
      BY <1>0, <2>1, <2>2, SetDecodes
    <2>4. PICK g : g = [state |-> "included", json |-> name \in Lists, editor |-> e,
                        items |-> f.items]
      OBVIOUS
    <2>5. Filled(name, f, v) = g
      BY <1>3, <2>2, <2>4 DEF Filled
    <2>6. g.state = "included" /\ g.editor = e /\ g.json = (name \in Lists)
      BY <2>4
    <2>7. Held(name, g) = Decoded(e)
      BY <2>6 DEF Held, IsList
    <2>8. g \in Field
      <3>1. (name \in Lists) \in BOOLEAN
        OBVIOUS
      <3>2. f.items \in SeqOf(Editors, MaxItems) /\ "included" \in Presences
        BY DEF Field, Presences
      <3> QED BY <2>3, <2>4, <3>1, <3>2, Zenon DEF Field
    <2> QED BY <2>3, <2>5, <2>6, <2>7, <2>8
  <1> QED BY <1>1, <1>2, <1>3

\* field.value: what a field holds can be sent.
LEMMA HeldTypes ==
    ASSUME NEW name \in Names, NEW f \in Field
    PROVE  Held(name, f) \in Sendable(name) \cup {Invalid}
  <1>1. CASE f.state = "null"
    BY <1>1 DEF Held, Sendable, ItemValues
  <1>2. CASE f.state # "null" /\ ~IsList(name, f)
    <2>1. f.editor \in Editors
      BY DEF Field
    <2> QED BY <1>2, <2>1, DecodedTypes DEF Held, Sendable
  <1>3. CASE f.state # "null" /\ IsList(name, f)
    <2>1. PICK n \in 0..MaxItems : f.items \in [1..n -> Editors]
      BY FormParameters DEF Field, SeqOf
    <2>2. CASE \E i \in DOMAIN f.items : Decoded(f.items[i]) = Invalid
      BY <1>3, <2>2 DEF Held
    <2>3. CASE ~ \E i \in DOMAIN f.items : Decoded(f.items[i]) = Invalid
      <3>1. \A i \in 1..n : Decoded(f.items[i]) \in ItemValues
        BY <2>1, <2>3, DecodedTypes
      <3>2. Held(name, f) = [i \in 1..n |-> Decoded(f.items[i])]
        BY <1>3, <2>1, <2>3 DEF Held
      <3>3. Held(name, f) \in ItemLists
        <4>1. [i \in 1..n |-> Decoded(f.items[i])] \in [1..n -> ItemValues]
          BY <3>1
        <4> QED BY <3>2, <4>1 DEF ItemLists, SeqOf
      <3> QED BY <1>3, <3>3 DEF Sendable, IsList
    <2> QED BY <2>2, <2>3
  <1> QED BY <1>1, <1>2, <1>3

\* Model.arguments: an object, or nothing that can be sent.
LEMMA ArgumentsObject ==
    ASSUME Types, Objective
    PROVE  Arguments = Invalid \/ IsObject(Arguments)
  <1>1. CASE raw
    BY <1>1 DEF Objective, Arguments
  <1>2. CASE ~raw /\ \E name \in Included : Held(name, fields[name]) = Invalid
    BY <1>2 DEF Arguments
  <1>3. CASE ~raw /\ ~ \E name \in Included : Held(name, fields[name]) = Invalid
    <2>1. PICK a : a = [name \in Included \cup DOMAIN extra |->
                           IF name \in Included THEN Held(name, fields[name]) ELSE extra[name]]
      OBVIOUS
    <2>2. Arguments = a
      BY <1>3, <2>1 DEF Arguments
    <2>3. Included \subseteq Names /\ DOMAIN extra \subseteq Others
      BY DEF Included, Objective
    <2>4. DOMAIN a \subseteq Names \cup Others /\ a = [name \in DOMAIN a |-> a[name]]
      BY <2>1, <2>3
    <2>5. ASSUME NEW name \in DOMAIN a \cap Names PROVE a[name] \in Sendable(name)
      <3>1. name \in Included
        BY <2>1, <2>3, FormParameters
      <3>2. fields[name] \in Field
        BY DEF Types
      <3>3. a[name] = Held(name, fields[name]) /\ a[name] # Invalid
        BY <1>3, <2>1, <3>1
      <3> QED BY <3>2, <3>3, HeldTypes
    <2> QED BY <2>2, <2>4, <2>5 DEF IsObject
  <1> QED BY <1>1, <1>2, <1>3

\* Whatever is typed as JSON is an object.
LEMMA ObjectsAreObjects ==
    ASSUME NEW a \in Objects
    PROVE  IsObject(a)
  <1>1. PICK given \in SUBSET (Names \cup Others) :
           /\ a \in [given -> UNION {ValuesOf(name) : name \in given}]
           /\ \A name \in given : a[name] \in ValuesOf(name)
    BY DEF Objects
  <1>2. DOMAIN a = given /\ a = [name \in DOMAIN a |-> a[name]]
    BY <1>1
  <1>3. ASSUME NEW name \in given, name \in Names PROVE a[name] \in Sendable(name)
    BY <1>1, <1>3 DEF ValuesOf, Sendable, ItemValues
  <1> QED BY <1>1, <1>2, <1>3 DEF IsObject

-----------------------------------------------------------------------------
(* Editing.                                                                 *)

\* The field in focus is one of the form's.
LEMMA FocusInForm ==
    ASSUME NEW f \in DOMAIN Fields
    PROVE  /\ Fields[f] \in Names
           /\ Len(Fields) \in Nat \ {0} /\ DOMAIN Fields = 1..Len(Fields)
  <1>1. Fields[f] \in Names
    BY DEF Names, ToSet
  <1>2. Fields \in Seq(Names) /\ Fields # <<>>
    BY FormParameters
  <1> QED BY <1>1, <1>2

\* The items of a field are editors, at most MaxItems.
LEMMA ItemsTyped ==
    ASSUME NEW f \in Field
    PROVE  /\ f.items \in Seq(Editors) /\ Len(f.items) \in 0..MaxItems
           /\ DOMAIN f.items = 1..Len(f.items)
  <1>1. f.items \in SeqOf(Editors, MaxItems)
    BY DEF Field
  <1>2. f.items \in Seq(Editors) /\ Len(f.items) <= MaxItems
    BY <1>1, Bounded
  <1> QED BY <1>2, FormParameters

\* setFocus looks up the item in focus: it is there, or the workspace is gone.
LEMMA FocusShown ==
    ASSUME Types', SetFocus
    PROVE  ItemShown' /\ (panicked' => ~raw')
  <1>1. Fields[focus'] \in Names
    BY FocusInForm DEF Types
  <1>2. fields'[Fields[focus']] \in Field
    BY <1>1 DEF Types
  <1>3. Len(fields'[Fields[focus']].items) \in Nat /\ item' \in Nat
    BY <1>2, ItemsTyped, FormParameters DEF Types
  <1>4. panicked' => ~raw'
    BY DEF SetFocus
  <1>5. ASSUME ~panicked', ~raw', HasItems(Fields[focus'], fields'[Fields[focus']])
        PROVE  item' <= Len(fields'[Fields[focus']].items)
    <2>1. ~(item' > Len(fields'[Fields[focus']].items))
      BY <1>5, Zenon DEF SetFocus
    <2>2. PICK length \in Nat : length = Len(fields'[Fields[focus']].items)
      BY <1>3
    <2> QED BY <1>3, <2>1, <2>2
  <1> QED BY <1>4, <1>5 DEF ItemShown, Focused

\* A field's editor, or the one of its item in focus, is exchanged for another.
LEMMA ChangedTypes ==
    ASSUME Types, ItemShown, ~raw, ~panicked, HasEditor, NEW e \in Editors
    PROVE  /\ Editor \in Editors
           /\ Changed(e) \in [Names -> Field]
           /\ HasItems(Focused, Changed(e)[Focused]) =>
                 item <= Len(Changed(e)[Focused].items)
  <1>1. Focused \in Names
    BY FocusInForm DEF Types, Focused
  <1>2. PICK f \in Field : f = fields[Focused]
    BY <1>1 DEF Types
  <1>3. f.items \in Seq(Editors) /\ Len(f.items) \in 0..MaxItems
        /\ DOMAIN f.items = 1..Len(f.items)
    BY ItemsTyped
  <1>4. CASE IsList(Focused, f)
    <2>1. HasItems(Focused, f) /\ item \in 1..Len(f.items)
      BY <1>2, <1>3, <1>4, FormParameters DEF HasEditor, ItemShown, Types
    <2>2. PICK items : items = [f.items EXCEPT ![item] = e]
      OBVIOUS
    <2>3. items \in Seq(Editors) /\ Len(items) = Len(f.items)
      BY <1>3, <2>1, <2>2
    <2>4. items \in SeqOf(Editors, MaxItems)
      BY <1>3, <2>3, Bounded, FormParameters
    <2>5. PICK g : g = [f EXCEPT !.items = items]
      OBVIOUS
    <2>6. g \in Field /\ g.items = items
      BY <2>4, <2>5 DEF Field
    <2>7. Changed(e) = [fields EXCEPT ![Focused] = g]
      BY <1>2, <1>4, <2>2, <2>5 DEF Changed
    <2>8. Changed(e) \in [Names -> Field] /\ Changed(e)[Focused] = g
      BY <1>1, <2>6, <2>7 DEF Types
    <2>9. Editor \in Editors
      BY <1>2, <1>3, <1>4, <2>1 DEF Editor
    <2> QED BY <2>1, <2>3, <2>6, <2>8, <2>9, <1>3
  <1>5. CASE ~IsList(Focused, f)
    <2>1. PICK g : g = [f EXCEPT !.editor = e, !.state = "included"]
      OBVIOUS
    <2>2. g \in Field /\ g.json = f.json
      BY <2>1 DEF Field, Presences
    <2>3. Changed(e) = [fields EXCEPT ![Focused] = g]
      BY <1>2, <1>5, <2>1 DEF Changed
    <2>4. Changed(e) \in [Names -> Field] /\ Changed(e)[Focused] = g
      BY <1>1, <2>2, <2>3 DEF Types
    <2>5. ~HasItems(Focused, g)
      BY <1>5, <2>2 DEF HasItems, IsList
    <2>6. Editor \in Editors
      BY <1>2, <1>5 DEF Editor, Field
    <2> QED BY <2>4, <2>5, <2>6
  <1> QED BY <1>4, <1>5

\* Whatever editor there is.
LEMMA EditorTyped ==
    ASSUME FormInv, Editing, HasEditor
    PROVE  Editor \in Editors
  <1>1. Focused \in Names
    BY FocusInForm DEF FormInv, Types, Focused
  <1>2. NewEditor(Focused) \in Editors
    BY <1>1, NewFieldTypes
  <1> QED BY <1>2, ChangedTypes DEF FormInv, Editing

\* Edited counts, and Marked tells.
LEMMA EditTold ==
    ASSUME Types, Clean, Edited, Marked, UNCHANGED <<schema, loaded>>
    PROVE  edits' \in 0..MaxEdits /\ dirty' \in BOOLEAN /\ Clean'
  <1>1. edits' \in 0..MaxEdits
    BY FormParameters DEF Types, Edited
  <1>2. dirty' = TRUE /\ rawOnly' = rawOnly /\ loaded' = loaded
    BY DEF Marked, schema
  <1>3. Clean'
    BY <1>2 DEF Clean
  <1> QED BY <1>1, <1>2, <1>3

\* The focus moves.
LEMMA Moved ==
    ASSUME FormInv, Editing, focus' \in DOMAIN Fields, item' \in 1..MaxItems, SetFocus,
           UNCHANGED <<schema, raw, text, fields, extra, dirty, edits, loaded>>
    PROVE  FormInv'
  <1> USE DEF FormInv
  <1>1. panicked' \in BOOLEAN
    BY Zenon DEF SetFocus
  <1>2. Types'
    BY <1>1 DEF Types, schema
  <1>3. Objective' /\ Clean'
    BY DEF Objective, Clean, IsObject, Arguments, Included, schema, Held, IsList
  <1>4. ItemShown' /\ (panicked' => ~raw')
    BY <1>2, FocusShown
  <1>5. Views'
    BY <1>4 DEF Views, schema
  <1> QED BY <1>2, <1>3, <1>4, <1>5

\* The field in focus is edited.
LEMMA Dirtied ==
    ASSUME FormInv, Edited, Marked, SetFocus,
           fields' \in [Names -> Field], item' \in 1..MaxItems,
           UNCHANGED <<schema, raw, text, extra, focus, loaded>>
    PROVE  FormInv'
  <1> USE DEF FormInv
  <1>1. panicked' \in BOOLEAN
    BY Zenon DEF SetFocus
  <1>2. edits' \in 0..MaxEdits /\ dirty' \in BOOLEAN /\ Clean'
    BY EditTold
  <1>3. Types'
    BY <1>1, <1>2 DEF Types, schema
  <1>4. Objective'
    BY DEF Objective, IsObject
  <1>5. ItemShown' /\ (panicked' => ~raw')
    BY <1>3, FocusShown
  <1>6. Views'
    BY <1>5 DEF Views, schema
  <1> QED BY <1>2, <1>3, <1>4, <1>5, <1>6

\* Its editor is.
LEMMA Entered ==
    ASSUME FormInv, Editing, HasEditor, NEW e \in Editors, Edited, Marked,
           fields' = Changed(e),
           UNCHANGED <<schema, raw, text, extra, focus, item, panicked, loaded>>
    PROVE  FormInv'
  <1> USE DEF FormInv
  <1>1. /\ Changed(e) \in [Names -> Field]
        /\ HasItems(Focused, Changed(e)[Focused]) => item <= Len(Changed(e)[Focused].items)
    BY ChangedTypes DEF Editing
  <1>2. edits' \in 0..MaxEdits /\ dirty' \in BOOLEAN /\ Clean'
    BY EditTold
  <1>3. Types'
    BY <1>1, <1>2 DEF Types, schema
  <1>4. Objective' /\ Views'
    BY DEF Objective, IsObject, Views, schema
  <1>5. ItemShown'
    BY <1>1 DEF ItemShown, Focused
  <1> QED BY <1>2, <1>3, <1>4, <1>5

\* New: nothing is filled in.
LEMMA InitForm == Init => FormInv
  <1> SUFFICES ASSUME Init PROVE FormInv
    OBVIOUS
  <1> USE DEF Init
  <1>1. 1 \in DOMAIN Fields
    BY FormParameters
  <1>2. Types
    <2>1. fields \in [Names -> Field]
      BY NewFieldTypes
    <2>2. item \in 1..MaxItems /\ edits \in 0..MaxEdits
      BY FormParameters
    <2>3. raw \in BOOLEAN /\ dirty \in BOOLEAN /\ panicked \in BOOLEAN
      OBVIOUS
    <2> QED BY <1>1, <2>1, <2>2, <2>3 DEF Types
  <1>3. Objective /\ Views
    <2>1. IsObject(Empty) /\ DOMAIN Empty = {}
      BY DEF IsObject, Empty
    <2>2. extra = [name \in DOMAIN extra |-> extra[name]]
      BY DEF Empty
    <2>3. Views
      BY DEF Views
    <2> QED BY <2>1, <2>2, <2>3 DEF Objective
  <1>4. ItemShown
    <2>1. Focused \in Names
      BY <1>1, FocusInForm DEF Focused
    <2>2. fields[Focused].state = "omitted"
      BY <2>1 DEF NewField
    <2> QED BY <2>2 DEF ItemShown, HasItems
  <1>5. Arguments = Empty
    <2>1. CASE raw
      BY <2>1 DEF Arguments
    <2>2. CASE ~raw
      <3>1. Included = {}
        BY DEF Included, NewField
      <3> QED BY <2>2, <3>1 DEF Arguments, Empty
    <2> QED BY <2>1, <2>2
  <1>6. Clean
    BY <1>5 DEF Clean
  <1> QED BY <1>2, <1>3, <1>4, <1>6 DEF FormInv

\* moveFocus, forwards.
LEMMA TabKeeps == ASSUME FormInv, Tab PROVE FormInv'
  <1>1. /\ focus \in 1..Len(Fields) /\ item \in 1..MaxItems
        /\ Len(Fields) \in Nat \ {0} /\ DOMAIN Fields = 1..Len(Fields)
        /\ Focused \in Names /\ fields[Focused] \in Field
    BY FocusInForm DEF FormInv, Types, Focused
  <1>2. Len(fields[Focused].items) \in 0..MaxItems
    BY <1>1, ItemsTyped
  <1>3. focus' \in DOMAIN Fields /\ item' \in 1..MaxItems
    <2>1. CASE HasItems(Focused, fields[Focused]) /\ item < Len(fields[Focused].items)
      BY <2>1, <1>1, <1>2, FormParameters DEF Tab
    <2>2. CASE ~(HasItems(Focused, fields[Focused]) /\ item < Len(fields[Focused].items))
      <3>1. focus' = (focus % Len(Fields)) + 1 /\ item' = 1
        BY <2>2 DEF Tab
      <3> QED BY <1>1, <3>1, FormParameters
    <2> QED BY <2>1, <2>2
  <1> QED BY <1>3, Moved DEF Tab

\* And backwards.
LEMMA BackTabKeeps == ASSUME FormInv, BackTab PROVE FormInv'
  <1>1. /\ focus \in 1..Len(Fields) /\ item \in 1..MaxItems
        /\ Len(Fields) \in Nat \ {0} /\ DOMAIN Fields = 1..Len(Fields)
        /\ Focused \in Names /\ fields[Focused] \in Field
    BY FocusInForm DEF FormInv, Types, Focused
  <1>2. Len(fields[Focused].items) \in 0..MaxItems
    BY <1>1, ItemsTyped
  <1>3. focus' \in DOMAIN Fields /\ item' \in 1..MaxItems
    <2>1. CASE HasItems(Focused, fields[Focused]) /\ item > 1
      BY <2>1, <1>1, <1>2, FormParameters DEF BackTab
    <2>2. CASE ~(HasItems(Focused, fields[Focused]) /\ item > 1)
      <3>1. /\ focus' = ((focus + Len(Fields) - 2) % Len(Fields)) + 1
            /\ item' = IF HasItems(Fields[focus'], fields[Fields[focus']])
                       THEN Len(fields[Fields[focus']].items) ELSE 1
        BY <2>2 DEF BackTab
      <3>2. focus' \in 1..Len(Fields)
        BY <1>1, <3>1
      <3>3. PICK f \in Field : f = fields[Fields[focus']]
        BY <1>1, <3>2, FocusInForm DEF FormInv, Types
      <3>4. Len(f.items) \in 0..MaxItems /\ (f.items # <<>> => Len(f.items) # 0)
        BY ItemsTyped
      <3>5. item' \in 1..MaxItems
        BY <3>1, <3>3, <3>4, FormParameters DEF HasItems
      <3> QED BY <1>1, <3>2, <3>5
    <2> QED BY <2>1, <2>2
  <1> QED BY <1>3, Moved DEF BackTab

\* Ctrl+O.
LEMMA PresenceKeeps == ASSUME FormInv, Presence PROVE FormInv'
  <1>1. Focused \in Names
    BY FocusInForm DEF FormInv, Types, Focused
  <1>2. PICK f \in Field : f = fields[Focused]
    BY <1>1 DEF FormInv, Types
  <1>3. NextPresence(Focused, f.state) \in Presences
    BY DEF NextPresence, Field, Presences
  <1>4. PICK g : g = [f EXCEPT !.state = NextPresence(Focused, f.state)]
    OBVIOUS
  <1>5. g \in Field
    BY <1>3, <1>4 DEF Field
  <1>6. fields' = [fields EXCEPT ![Focused] = g]
    BY <1>2, <1>4 DEF Presence
  <1>7. fields' \in [Names -> Field]
    BY <1>5, <1>6 DEF FormInv, Types
  <1>8. item' \in 1..MaxItems
    BY FormParameters DEF Presence
  <1> QED BY <1>7, <1>8, Dirtied DEF Presence

\* Ctrl+N.
LEMMA AddItemKeeps == ASSUME FormInv, AddItem PROVE FormInv'
  <1>1. Focused \in Names
    BY FocusInForm DEF FormInv, Types, Focused
  <1>2. PICK f \in Field : f = fields[Focused]
    BY <1>1 DEF FormInv, Types
  <1>3. f.items \in Seq(Editors) /\ Len(f.items) < MaxItems
    BY <1>2, ItemsTyped DEF AddItem
  <1>4. PICK items : items = Append(f.items, NewEditor(Focused))
    OBVIOUS
  <1>5. NewEditor(Focused) \in Editors
    BY <1>1, NewFieldTypes
  <1>6. items \in Seq(Editors) /\ Len(items) = Len(f.items) + 1 /\ Len(items) \in 1..MaxItems
    BY <1>3, <1>4, <1>5, FormParameters
  <1>7. items \in SeqOf(Editors, MaxItems)
    BY <1>6, Bounded
  <1>8. PICK g : g = [f EXCEPT !.state = "included", !.items = items]
    OBVIOUS
  <1>9. g \in Field /\ g.items = items
    BY <1>7, <1>8 DEF Field, Presences
  <1>10. fields' = [fields EXCEPT ![Focused] = g]
    BY <1>2, <1>4, <1>8 DEF AddItem
  <1>11. fields' \in [Names -> Field] /\ fields'[Focused] = g
    BY <1>1, <1>9, <1>10 DEF FormInv, Types
  <1>12. item' \in 1..MaxItems
    BY <1>6, <1>9, <1>11 DEF AddItem
  <1> QED BY <1>11, <1>12, Dirtied DEF AddItem

\* Ctrl+D.
LEMMA DropItemKeeps == ASSUME FormInv, DropItem PROVE FormInv'
  <1>1. Focused \in Names
    BY FocusInForm DEF FormInv, Types, Focused
  <1>2. PICK f \in Field : f = fields[Focused]
    BY <1>1 DEF FormInv, Types
  <1>3. /\ f.items \in Seq(Editors) /\ Len(f.items) \in 0..MaxItems
        /\ HasItems(Focused, f) /\ item \in 1..MaxItems
    BY <1>2, ItemsTyped DEF FormInv, Types, DropItem
  <1>4. item <= Len(f.items)
    BY <1>2, <1>3 DEF FormInv, ItemShown, DropItem, Editing
  <1>5. PICK items : items = RemoveAt(f.items, item)
    OBVIOUS
  <1>6. items \in Seq(Editors) /\ Len(items) = Len(f.items) - 1
    <2>1. PICK front : front = SubSeq(f.items, 1, item - 1)
      OBVIOUS
    <2>2. PICK rest : rest = SubSeq(f.items, item + 1, Len(f.items))
      OBVIOUS
    <2>3. front \in Seq(Editors) /\ Len(front) = item - 1
      BY <1>3, <1>4, <2>1
    <2>4. rest \in Seq(Editors) /\ Len(rest) = Len(f.items) - item
      BY <1>3, <1>4, <2>2
    <2>5. items = front \o rest
      BY <1>5, <2>1, <2>2 DEF RemoveAt
    <2> QED BY <1>3, <1>4, <2>3, <2>4, <2>5
  <1>7. Len(items) \in 0..MaxItems /\ items \in SeqOf(Editors, MaxItems)
    BY <1>3, <1>4, <1>6, Bounded, FormParameters
  <1>8. PICK g : g = [f EXCEPT !.items = items]
    OBVIOUS
  <1>9. g \in Field /\ g.items = items
    BY <1>7, <1>8 DEF Field
  <1>10. fields' = [fields EXCEPT ![Focused] = g]
    BY <1>2, <1>5, <1>8 DEF DropItem
  <1>11. fields' \in [Names -> Field] /\ fields'[Focused] = g
    BY <1>1, <1>9, <1>10 DEF FormInv, Types
  <1>12. item' = Clamped(item, Len(items))
    BY <1>9, <1>11 DEF DropItem
  <1>13. item' \in 1..MaxItems
    BY <1>3, <1>7, <1>12, FormParameters DEF Clamped
  <1> QED BY <1>11, <1>13, Dirtied DEF DropItem

\* Ctrl+L.
LEMMA FlipNullKeeps == ASSUME FormInv, FlipNull PROVE FormInv'
  <1>1. HasEditor
    BY DEF FlipNull, HasEditor
  <1>2. Editor \in Editors
    BY <1>1, EditorTyped DEF FlipNull
  <1>3. PICK e : e = [Editor EXCEPT !.null = ~@]
    OBVIOUS
  <1>4. e \in Editors
    BY <1>2, <1>3 DEF Editors
  <1> QED BY <1>1, <1>3, <1>4, Entered DEF FlipNull

\* Enter and the arrows.
LEMMA ChooseKeeps == ASSUME FormInv, Choose PROVE FormInv'
  <1>1. Editor \in Editors
    BY EditorTyped DEF Choose
  <1>2. PICK choice \in Values : fields' = Changed([Editor EXCEPT !.text = choice, !.null = FALSE])
    BY DEF Choose
  <1>3. PICK e : e = [Editor EXCEPT !.text = choice, !.null = FALSE]
    OBVIOUS
  <1>4. e \in Editors
    BY <1>1, <1>3 DEF Editors, Texts
  <1> QED BY <1>2, <1>3, <1>4, Entered DEF Choose

\* Typing and pasting.
LEMMA TypeKeeps == ASSUME FormInv, Type PROVE FormInv'
  <1>1. Editor \in Editors
    BY EditorTyped DEF Type
  <1>2. PICK entry \in Texts : fields' = Changed([Editor EXCEPT !.text = entry, !.null = FALSE])
    BY DEF Type, Texts
  <1>3. PICK e : e = [Editor EXCEPT !.text = entry, !.null = FALSE]
    OBVIOUS
  <1>4. e \in Editors
    BY <1>1, <1>3 DEF Editors
  <1> QED BY <1>2, <1>3, <1>4, Entered DEF Type

\* Typing JSON.
LEMMA TypeJSONKeeps == ASSUME FormInv, TypeJSON PROVE FormInv'
  <1> USE DEF FormInv
  <1>1. edits' \in 0..MaxEdits /\ dirty' \in BOOLEAN /\ Clean'
    BY EditTold DEF TypeJSON
  <1>2. Types'
    BY <1>1 DEF Types, schema, TypeJSON
  <1>3. Objective'
    <2>1. text' = Invalid \/ IsObject(text')
      BY ObjectsAreObjects DEF TypeJSON
    <2>2. extra' = extra
      BY DEF TypeJSON
    <2> QED BY <2>1, <2>2 DEF Objective, IsObject
  <1>4. Views' /\ ItemShown'
    BY DEF Views, ItemShown, schema, TypeJSON
  <1> QED BY <1>1, <1>2, <1>3, <1>4

-----------------------------------------------------------------------------
(* Showing the arguments another way.                                       *)

\* toggleJSON: the arguments are the text from now on.
LEMMA ShowJSONKeeps ==
    ASSUME FormInv, ShowJSON
    PROVE  FormInv' /\ Arguments' = Arguments
  <1> USE DEF FormInv
  <1>1. raw' = TRUE /\ text' = Arguments
    BY DEF ShowJSON
  <1>2. Arguments' = Arguments
    BY <1>1 DEF Arguments
  <1>3. panicked' \in BOOLEAN
    BY Zenon DEF SetFocus, ShowJSON
  <1>4. Types'
    BY <1>1, <1>3 DEF Types, schema, ShowJSON
  <1>5. Objective'
    <2>1. IsObject(text')
      BY <1>1, ArgumentsObject DEF ShowJSON
    <2>2. extra' = extra
      BY DEF ShowJSON
    <2> QED BY <2>1, <2>2 DEF Objective, IsObject
  <1>6. ItemShown' /\ (panicked' => ~raw')
    BY <1>4, FocusShown DEF ShowJSON
  <1>7. Views'
    BY <1>1, <1>6 DEF Views
  <1>8. Clean'
    <2>1. UNCHANGED <<rawOnly, loaded, dirty, fields, extra>>
      BY DEF ShowJSON, schema
    <2> QED BY <1>2, <2>1 DEF Clean
  <1> QED BY <1>2, <1>4, <1>5, <1>6, <1>7, <1>8

\* loadArguments: each field holds what the text has for it, what has none is kept aside.
LEMMA ShownAsForm ==
    ASSUME FormInv, ShowForm
    PROVE  /\ IsObject(text) /\ Arguments = text
           /\ \A name \in Names :
                 /\ fields'[name] \in Field
                 /\ fields'[name].state # "omitted" <=> name \in DOMAIN text
                 /\ name \in DOMAIN text => /\ Held(name, fields'[name]) = text[name]
                                            /\ text[name] # Invalid
  <1> USE DEF FormInv
  <1>1. Arguments = text /\ text # Invalid
    BY DEF ShowForm, Arguments
  <1>2. IsObject(text)
    BY <1>1 DEF Objective
  <1>3. ASSUME NEW name \in Names
        PROVE  /\ fields'[name] \in Field
               /\ fields'[name].state # "omitted" <=> name \in DOMAIN text
               /\ name \in DOMAIN text => /\ Held(name, fields'[name]) = text[name]
                                          /\ text[name] # Invalid
    <2>1. fields[name] \in Field /\ nullItems \in BOOLEAN
      BY DEF Types
    <2>2. CASE name \in DOMAIN text
      <3>1. fields'[name] = Filled(name, fields[name], text[name])
        BY <1>1, <2>2 DEF ShowForm
      <3>2. text[name] \in Sendable(name)
        BY <1>2, <2>2 DEF IsObject
      <3>3. /\ Filled(name, fields[name], text[name]) \in Field
            /\ Filled(name, fields[name], text[name]).state # "omitted"
            /\ Held(name, Filled(name, fields[name], text[name])) = text[name]
        BY <2>1, <3>2, FilledHolds
      <3>4. text[name] # Invalid
        BY <3>2, FormTexts DEF Sendable
      <3> QED BY <2>2, <3>1, <3>3, <3>4
    <2>3. CASE name \notin DOMAIN text
      <3>1. fields'[name] = [fields[name] EXCEPT !.state = "omitted"]
        BY <1>1, <2>3 DEF ShowForm
      <3> QED BY <2>1, <2>3, <3>1 DEF Field, Presences
    <2> QED BY <2>2, <2>3
  <1> QED BY <1>1, <1>2, <1>3

\* What the form sends is what the text was.
LEMMA FormSendsText ==
    ASSUME FormInv, ShowForm
    PROVE  Arguments' = Arguments
  <1>1. /\ IsObject(text) /\ Arguments = text
        /\ \A name \in Names :
              /\ fields'[name].state # "omitted" <=> name \in DOMAIN text
              /\ name \in DOMAIN text => /\ Held(name, fields'[name]) = text[name]
                                         /\ text[name] # Invalid
    BY ShownAsForm
  <1>2. Included' = DOMAIN text \cap Names
    BY <1>1 DEF Included
  <1>3. extra' = [name \in DOMAIN text \ Names |-> text[name]]
    BY <1>1 DEF ShowForm, Unknown
  <1>4. ~ \E name \in Included' : Held(name, fields'[name]) = Invalid
    BY <1>1, <1>2
  <1>5. raw' = FALSE
    BY DEF ShowForm
  <1>6. Arguments' = [name \in Included' \cup DOMAIN extra' |->
                         IF name \in Included' THEN Held(name, fields'[name]) ELSE extra'[name]]
    BY <1>4, <1>5, Zenon DEF Arguments
  <1>7. Included' \cup DOMAIN extra' = DOMAIN text
    BY <1>2, <1>3
  <1>8. \A name \in DOMAIN text :
           (IF name \in Included' THEN Held(name, fields'[name]) ELSE extra'[name]) = text[name]
    BY <1>1, <1>2, <1>3
  <1>9. Arguments' = [name \in DOMAIN text |-> text[name]]
    BY <1>6, <1>7, <1>8
  <1> QED BY <1>1, <1>9 DEF IsObject

\* toggleJSON, the other way.
LEMMA ShowFormKeeps == ASSUME FormInv, ShowForm PROVE FormInv'
  <1> USE DEF FormInv
  <1>1. IsObject(text) /\ Arguments = text /\ \A name \in Names : fields'[name] \in Field
    BY ShownAsForm
  <1>2. raw' = FALSE /\ rawOnly = FALSE /\ UNCHANGED <<rawOnly, nullItems, text, focus, item, dirty, edits, loaded>>
    BY DEF ShowForm, schema, Types
  <1>3. panicked' \in BOOLEAN
    BY Zenon DEF SetFocus, ShowForm
  <1>4. fields' \in [Names -> Field]
    BY <1>1 DEF ShowForm
  <1>5. Types'
    BY <1>2, <1>3, <1>4 DEF Types
  <1>6. Objective'
    <2>1. extra' = [name \in DOMAIN text \ Names |-> text[name]]
      BY <1>1 DEF ShowForm, Unknown
    <2>2. DOMAIN extra' \subseteq Others /\ extra' = [name \in DOMAIN extra' |-> extra'[name]]
      BY <1>1, <2>1 DEF IsObject
    <2> QED BY <1>1, <1>2, <2>2 DEF Objective, IsObject
  <1>7. ItemShown' /\ (panicked' => ~raw')
    BY <1>5, FocusShown DEF ShowForm
  <1>8. Views'
    BY <1>2, <1>7 DEF Views
  <1>9. ASSUME ~dirty
        PROVE  fields' = [name \in Names |-> NewField(name)] /\ extra' = Empty
    <2>1. text = Empty /\ fields = [name \in Names |-> NewField(name)]
      BY <1>1, <1>2, <1>9 DEF Clean
    <2>2. DOMAIN text = {}
      BY <2>1 DEF Empty
    <2>3. extra' = Empty
      <3>1. extra' = [name \in DOMAIN text \ Names |-> text[name]]
        BY <1>1 DEF ShowForm, Unknown
      <3> QED BY <2>2, <3>1 DEF Empty
    <2>4. ASSUME NEW name \in Names
          PROVE  [NewField(name) EXCEPT !.state = "omitted"] = NewField(name)
      <3>1. \A g \in Field : g.state = "omitted" => [g EXCEPT !.state = "omitted"] = g
        BY DEF Field
      <3>2. NewField(name) \in Field /\ NewField(name).state = "omitted"
        BY NewFieldTypes DEF NewField
      <3> QED BY <3>1, <3>2, Zenon
    <2>5. fields' = [name \in Names |-> [fields[name] EXCEPT !.state = "omitted"]]
      BY <1>1, <2>2 DEF ShowForm
    <2> QED BY <2>1, <2>3, <2>4, <2>5
  <1>10. Clean'
    BY <1>2, <1>9, FormSendsText DEF Clean
  <1> QED BY <1>5, <1>6, <1>7, <1>8, <1>10

\* SetArguments in the form of another schema: what fits is what is sent.
LEMMA ReopenKeeps ==
    ASSUME FormInv, Reopen
    PROVE  FormInv' /\ (Arguments' = Arguments \/ (rawOnly' /\ ~Fits(Arguments)))
  <1> USE DEF FormInv
  <1>1. /\ rawOnly' = TRUE /\ raw' = TRUE /\ loaded' = text' /\ extra' = Empty /\ dirty' = FALSE
        /\ fields' = [name \in Names |-> NewField(name)]
        /\ focus' = 1 /\ item' = 1 /\ panicked' = FALSE /\ nullItems' = nullItems
        /\ edits' = edits
    BY DEF Reopen, Types
  <1>2. Arguments' = text'
    BY <1>1 DEF Arguments
  <1>3. text' = Arguments \/ (text' = Empty /\ ~Fits(Arguments))
    BY DEF Reopen
  <1>4. Types'
    <2>1. focus' \in DOMAIN Fields
      BY <1>1, FormParameters
    <2>2. item' \in 1..MaxItems
      BY <1>1, FormParameters
    <2>3. fields' \in [Names -> Field]
      BY <1>1, NewFieldTypes
    <2> QED BY <1>1, <2>1, <2>2, <2>3 DEF Types
  <1>5. Objective'
    <2>1. IsObject(Empty) /\ DOMAIN Empty = {} /\ Empty = [name \in DOMAIN Empty |-> Empty[name]]
      BY DEF IsObject, Empty
    <2>2. text' = Invalid \/ IsObject(text')
      BY <1>3, <2>1, ArgumentsObject
    <2>3. extra' = [name \in DOMAIN extra' |-> extra'[name]] /\ DOMAIN extra' \subseteq Others
      BY <1>1, <2>1
    <2> QED BY <2>2, <2>3 DEF Objective, IsObject
  <1>6. Views' /\ ItemShown' /\ Clean'
    BY <1>1, <1>2 DEF Views, ItemShown, Clean
  <1> QED BY <1>1, <1>2, <1>3, <1>4, <1>5, <1>6

-----------------------------------------------------------------------------
(* The properties.                                                          *)

\* Every step keeps the invariant.
LEMMA FormStep == FormInv /\ [Next]_vars => FormInv'
  <1> SUFFICES ASSUME FormInv, [Next]_vars PROVE FormInv'
    OBVIOUS
  <1>1. CASE UNCHANGED vars
    BY <1>1 DEF vars, schema, FormInv, Types, Objective, IsObject, Views, ItemShown, Focused,
                Clean, Arguments, Included
  <1> QED BY <1>1, TabKeeps, BackTabKeeps, PresenceKeeps, AddItemKeeps, DropItemKeeps,
             FlipNullKeeps, ChooseKeeps, TypeKeeps, TypeJSONKeeps, ShowJSONKeeps,
             ShowFormKeeps, ReopenKeeps DEF Next

\* Fields, drafts and the item in focus are what they can be, and what is sent or kept
\* aside is named as the schema or the user did (model.go and field.go).
THEOREM FormTyped == Spec => []TypeOK
  <1>1. FormInv => TypeOK
    BY DEF FormInv, Types, Objective, IsObject, Views, TypeOK
  <1> QED BY <1>1, InitForm, FormStep, PTL DEF Spec

\* Whatever is entered, moved to, shown another way or put into another form: as long as
\* Model.Dirty says no, there is nothing to lose.
THEOREM UnsavedIsTold == Spec => []DirtyTold
  <1>1. FormInv => DirtyTold
    BY DEF FormInv, Clean, DirtyTold
  <1> QED BY <1>1, InitForm, FormStep, PTL DEF Spec

\* For any schema and any arguments: field.setValue and field.value are inverse, and
\* loadArguments with Model.arguments too.
THEOREM ConversionLossless == Spec => ConversionKeepsArguments
  <1>1. ASSUME FormInv, [Next]_vars, raw' # raw \/ loaded' # loaded
        PROVE  Arguments' = Arguments \/ (rawOnly' /\ ~Fits(Arguments))
    <2>1. ShowJSON \/ ShowForm \/ Reopen
      BY <1>1 DEF Next, vars, Tab, BackTab, Presence, AddItem, DropItem, FlipNull, Choose,
                  Type, TypeJSON
    <2> QED BY <1>1, <2>1, ShowJSONKeeps, FormSendsText, ReopenKeeps
  <1>2. FormInv /\ [Next]_vars =>
           [raw' # raw \/ loaded' # loaded =>
               Arguments' = Arguments \/ (rawOnly' /\ ~Fits(Arguments))]_vars
    BY <1>1
  <1> QED BY <1>2, InitForm, FormStep, PTL DEF Spec, ConversionKeepsArguments
=============================================================================
