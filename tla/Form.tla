-------------------------------- MODULE Form --------------------------------
(***************************************************************************)
(* The arguments of a tool, edited in a form or as one JSON object:        *)
(* internal/tui/form/model.go and field.go.                                *)
(*                                                                         *)
(* The form has one field for each property of the schema. A field is      *)
(* omitted, included or null, and keeps its draft when it is omitted; a    *)
(* list has an editor for each item. Both views are converted into each    *)
(* other at the touch of a key, and a conversion must neither change nor   *)
(* lose what was entered. A text is what it decodes to: a value its        *)
(* control can hold, one that only JSON can, or a draft of neither.        *)
(***************************************************************************)
EXTENDS Naturals, Sequences, SequencesExt

CONSTANTS
    Fields,      \* the properties in the order they are shown
    Selectors,   \* those that are chosen from the values: booleans and enums
    Lists,       \* those that are lists of texts
    Nullable,    \* those that may be null
    Others,      \* names the schema does not know
    Values,      \* what the controls can hold
    FirstChoice,
    Odd,         \* values that need JSON
    Unwieldy,    \* values that exceed the limit once they are escaped
    Null,
    Draft,       \* a text that is no value
    Invalid,
    MaxItems,    \* bound: items of a list
    MaxEdits     \* bound: edits

Names == ToSet(Fields)

ASSUME FormParameters ==
    /\ Fields \in Seq(Names) /\ Fields # <<>> /\ IsInjective(Fields)
    /\ Selectors \subseteq Names /\ Lists \subseteq Names /\ Selectors \cap Lists = {}
    /\ Nullable \subseteq Names /\ Others \cap Names = {}
    /\ FirstChoice \in Values
    /\ MaxItems \in Nat \ {0} /\ MaxEdits \in Nat

VARIABLES
    rawOnly,    \* the schema has JSON input only
    nullItems,  \* the items of a list may be null
    raw,        \* the JSON object is shown
    text,       \* what the JSON editor decodes to
    fields,
    extra,      \* the arguments that are no field
    focus,
    item,
    dirty,
    panicked,
    edits,
    loaded      \* history: the arguments the draft started from

schema == <<rawOnly, nullItems>>
vars   == <<schema, raw, text, fields, extra, focus, item, dirty, panicked, edits, loaded>>

Texts     == Values \cup Odd \cup {Null, Draft}
Editors   == [json : BOOLEAN, null : BOOLEAN, text : Texts]
Presences == {"omitted", "included", "null"}
Field     == [state : Presences, json : BOOLEAN, editor : Editors,
              items : SeqOf(Editors, MaxItems)]

ItemValues == Values \cup Odd \cup {Null}
ItemLists  == SeqOf(ItemValues, MaxItems)

ValuesOf(name) == IF name \in Lists THEN Odd \cup {Null} \cup ItemLists
                  ELSE IF name \in Names THEN ItemValues ELSE Values \cup Unwieldy

\* A draft is no value, and what is not sent is not one either.
ASSUME FormTexts ==
    /\ Draft \notin ItemValues
    /\ Invalid \notin ItemValues \cup ItemLists

Empty == [name \in {} |-> Null]

\* Every object of these names and values.
Objects ==
    UNION {{a \in [given -> UNION {ValuesOf(name) : name \in given}] :
               \A name \in given : a[name] \in ValuesOf(name)}
           : given \in SUBSET (Names \cup Others)}

NewEditor(name) ==
    [json |-> FALSE, null |-> FALSE,
     text |-> IF name \in Selectors THEN FirstChoice ELSE Draft]

NewField(name) ==
    [state |-> "omitted", json |-> FALSE, editor |-> NewEditor(name), items |-> <<>>]

TypeOK ==
    /\ rawOnly \in BOOLEAN /\ nullItems \in BOOLEAN /\ raw \in BOOLEAN /\ rawOnly => raw
    /\ text = Invalid \/ DOMAIN text \subseteq Names \cup Others
    /\ \A name \in Names : fields[name] \in Field
    /\ DOMAIN extra \subseteq Others
    /\ focus \in DOMAIN Fields /\ item \in 1..MaxItems
    /\ dirty \in BOOLEAN /\ panicked \in BOOLEAN /\ edits \in 0..MaxEdits

-----------------------------------------------------------------------------
(* Values and drafts.                                                       *)

\* scalar.value: a typed control holds a number or a string, a JSON editor any value.
Decoded(e) ==
    IF e.null THEN Null
    ELSE IF e.text \in Values \/ (e.json /\ e.text # Draft) THEN e.text ELSE Invalid

\* scalar.setValue: what does not fit the control is kept in a JSON editor.
Set(e, nullable, value) ==
    IF value = Null /\ nullable THEN [e EXCEPT !.null = TRUE]
    ELSE IF value \in Values THEN [e EXCEPT !.null = FALSE, !.text = value]
    ELSE [json |-> TRUE, null |-> FALSE, text |-> value]

IsList(name, f) == name \in Lists /\ ~f.json

\* field.value.
Held(name, f) ==
    IF f.state = "null" THEN Null
    ELSE IF ~IsList(name, f) THEN Decoded(f.editor)
    ELSE IF \E i \in DOMAIN f.items : Decoded(f.items[i]) = Invalid THEN Invalid
    ELSE [i \in DOMAIN f.items |-> Decoded(f.items[i])]

\* field.setValue: null leaves the draft alone.
Filled(name, f, value) ==
    IF value = Null THEN [f EXCEPT !.state = "null"]
    ELSE IF name \in Lists /\ value \in ItemLists
    THEN [NewField(name) EXCEPT !.state = "included",
              !.items = [i \in DOMAIN value |-> Set(NewEditor(name), nullItems, value[i])]]
    ELSE [state |-> "included", json |-> name \in Lists,
          editor |-> Set(NewEditor(name), FALSE, value), items |-> f.items]

Included == {name \in Names : fields[name].state # "omitted"}

\* Model.arguments: what would be sent.
Arguments ==
    IF raw THEN text
    ELSE IF \E name \in Included : Held(name, fields[name]) = Invalid THEN Invalid
    ELSE [name \in Included \cup DOMAIN extra |->
             IF name \in Included THEN Held(name, fields[name]) ELSE extra[name]]

\* Mutant of Unknown: properties that have no field are dropped.
UnknownDropped(arguments) == Empty

\* loadArguments: what no field takes is kept aside.
Unknown(arguments) == [name \in DOMAIN arguments \ Names |-> arguments[name]]

\* editorJSON: escaping may take the arguments over the limit.
Fits(arguments) ==
    \A name \in DOMAIN arguments :
        /\ arguments[name] \notin Unwieldy
        /\ arguments[name] \in ItemLists =>
              \A i \in DOMAIN arguments[name] : arguments[name][i] \notin Unwieldy

-----------------------------------------------------------------------------
(* Editing.                                                                 *)

Focused == Fields[focus]

\* A list shows the editor of one of its items, if it is there and has any.
HasItems(name, f) == IsList(name, f) /\ f.state = "included" /\ f.items # <<>>

HasEditor == ~IsList(Focused, fields[Focused]) \/ HasItems(Focused, fields[Focused])

Editor == IF IsList(Focused, fields[Focused]) THEN fields[Focused].items[item]
          ELSE fields[Focused].editor

\* The field in focus, with its editor changed, is included.
Changed(e) ==
    LET f == fields[Focused]
    IN  [fields EXCEPT ![Focused] =
            IF IsList(Focused, f) THEN [f EXCEPT !.items = [@ EXCEPT ![item] = e]]
            ELSE [f EXCEPT !.editor = e, !.state = "included"]]

\* setFocus and activeEditor index the items with the one in focus.
SetFocus ==
    panicked' = (~raw' /\ HasItems(Fields[focus'], fields'[Fields[focus']])
                       /\ item' > Len(fields'[Fields[focus']].items))

\* Mutant of Marked: what would be sent is compared with what the draft started from.
MarkedIfSent == dirty' = (Arguments' # loaded)

Marked == dirty' = TRUE

Edited == edits < MaxEdits /\ edits' = edits + 1

Editing == ~raw /\ ~panicked

\* moveFocus: through the items of a list, then to the next or the previous field,
\* and there to its first or last item.
Tab ==
    /\ Editing
    /\ \/ /\ HasItems(Focused, fields[Focused]) /\ item < Len(fields[Focused].items)
          /\ item' = item + 1
          /\ UNCHANGED focus
       \/ /\ ~(HasItems(Focused, fields[Focused]) /\ item < Len(fields[Focused].items))
          /\ focus' = (focus % Len(Fields)) + 1
          /\ item' = 1
    /\ UNCHANGED <<schema, raw, text, fields, extra, dirty, edits, loaded>>
    /\ SetFocus

BackTab ==
    /\ Editing
    /\ \/ /\ HasItems(Focused, fields[Focused]) /\ item > 1
          /\ item' = item - 1
          /\ UNCHANGED focus
       \/ /\ ~(HasItems(Focused, fields[Focused]) /\ item > 1)
          /\ focus' = ((focus + Len(Fields) - 2) % Len(Fields)) + 1
          /\ LET name == Fields[focus']
             IN  item' = IF HasItems(name, fields[name]) THEN Len(fields[name].items) ELSE 1
    /\ UNCHANGED <<schema, raw, text, fields, extra, dirty, edits, loaded>>
    /\ SetFocus

\* Ctrl+O.
NextPresence(name, state) ==
    CASE state = "omitted"  -> "included"
      [] state = "included" -> IF name \in Nullable THEN "null" ELSE "omitted"
      [] state = "null"     -> "omitted"

Presence ==
    /\ Editing /\ Edited
    /\ fields' = [fields EXCEPT ![Focused].state = NextPresence(Focused, @)]
    /\ item' = 1
    /\ UNCHANGED <<schema, raw, text, extra, focus, loaded>>
    /\ SetFocus
    /\ Marked

\* Ctrl+N. The items a hidden list still has come back with the new one.
AddItem ==
    /\ Editing /\ IsList(Focused, fields[Focused]) /\ Len(fields[Focused].items) < MaxItems
    /\ Edited
    /\ LET f == fields[Focused]
       IN  fields' = [fields EXCEPT ![Focused] =
               [f EXCEPT !.state = "included", !.items = Append(f.items, NewEditor(Focused))]]
    /\ item' = Len(fields'[Focused].items)
    /\ UNCHANGED <<schema, raw, text, extra, focus, loaded>>
    /\ SetFocus
    /\ Marked

\* Mutant of Clamped: the last item removed leaves none in focus.
ClampedToLast(i, last) == IF i <= last THEN i ELSE last

Clamped(i, last) == IF i <= last THEN i ELSE IF last = 0 THEN 1 ELSE last

\* Ctrl+D.
DropItem ==
    /\ Editing /\ HasItems(Focused, fields[Focused])
    /\ Edited
    /\ fields' = [fields EXCEPT ![Focused].items = RemoveAt(@, item)]
    /\ item' = Clamped(item, Len(fields'[Focused].items))
    /\ UNCHANGED <<schema, raw, text, extra, focus, loaded>>
    /\ SetFocus
    /\ Marked

\* Ctrl+L.
FlipNull ==
    /\ Editing /\ HasItems(Focused, fields[Focused]) /\ nullItems
    /\ Edited
    /\ fields' = Changed([Editor EXCEPT !.null = ~@])
    /\ UNCHANGED <<schema, raw, text, extra, focus, item, panicked, loaded>>
    /\ Marked

IsChoice(e) == Focused \in Selectors /\ ~e.json

\* Enter and the arrows: the first one only includes what was hidden.
Choose ==
    /\ Editing /\ HasEditor /\ IsChoice(Editor)
    /\ Edited
    /\ \E choice \in Values :
          /\ fields[Focused].state # "included" => choice = Editor.text
          /\ fields' = Changed([Editor EXCEPT !.text = choice, !.null = FALSE])
    /\ UNCHANGED <<schema, raw, text, extra, focus, item, panicked, loaded>>
    /\ Marked

\* Typing and pasting; what is refused changes nothing.
Type ==
    /\ Editing /\ HasEditor /\ ~IsChoice(Editor)
    /\ Edited
    /\ \E entry \in (IF Editor.json THEN Texts ELSE Values \cup {Draft}) \ {Editor.text} :
          fields' = Changed([Editor EXCEPT !.text = entry, !.null = FALSE])
    /\ UNCHANGED <<schema, raw, text, extra, focus, item, panicked, loaded>>
    /\ Marked

TypeJSON ==
    /\ raw
    /\ Edited
    /\ \E object \in (Objects \cup {Invalid}) \ {text} : text' = object
    /\ UNCHANGED <<schema, raw, fields, extra, focus, item, panicked, loaded>>
    /\ Marked

\* toggleJSON, unless the arguments are no object or do not fit.
ShowJSON ==
    /\ Editing
    /\ Arguments # Invalid /\ Fits(Arguments)
    /\ text' = Arguments
    /\ raw' = TRUE
    /\ UNCHANGED <<schema, fields, extra, focus, item, dirty, edits, loaded>>
    /\ SetFocus

\* An omitted field keeps its draft.
ShowForm ==
    /\ raw /\ ~rawOnly
    /\ Arguments # Invalid
    /\ extra' = Unknown(Arguments)
    /\ fields' = [name \in Names |->
                     IF name \in DOMAIN Arguments
                     THEN Filled(name, fields[name], Arguments[name])
                     ELSE [fields[name] EXCEPT !.state = "omitted"]]
    /\ raw' = FALSE
    /\ UNCHANGED <<schema, text, focus, item, dirty, edits, loaded>>
    /\ SetFocus

\* What was sent met another schema: tui/update.go opens a form for that one and fills
\* it in with SetArguments, whose error it ignores.
Reopen ==
    /\ ~panicked /\ Arguments # Invalid
    /\ rawOnly' = TRUE /\ raw' = TRUE
    /\ text' = IF Fits(Arguments) THEN Arguments ELSE Empty
    /\ loaded' = text'
    /\ fields' = [name \in Names |-> NewField(name)]
    /\ extra' = Empty
    /\ focus' = 1 /\ item' = 1 /\ dirty' = FALSE
    /\ UNCHANGED <<nullItems, panicked, edits>>

\* New: nothing is filled in.
Init ==
    /\ rawOnly \in BOOLEAN /\ nullItems \in BOOLEAN
    /\ raw = rawOnly
    /\ text = Empty
    /\ fields = [name \in Names |-> NewField(name)]
    /\ extra = Empty
    /\ focus = 1 /\ item = 1 /\ dirty = FALSE /\ panicked = FALSE /\ edits = 0
    /\ loaded = Empty

Next ==
    \/ Tab \/ BackTab \/ Presence \/ AddItem \/ DropItem \/ FlipNull \/ Choose \/ Type
    \/ TypeJSON \/ ShowJSON \/ ShowForm \/ Reopen

Spec == Init /\ [][Next]_vars

-----------------------------------------------------------------------------
\* Showing the arguments another way, or in the form of another schema, does not change
\* what would be sent, neither a null nor a value no control can hold nor a property
\* without a field (toggleJSON, loadArguments and SetArguments); only SetArguments may
\* fail to, when escaping takes them over the limit.
ConversionKeepsArguments ==
    [][raw' # raw \/ loaded' # loaded =>
          Arguments' = Arguments \/ (rawOnly' /\ ~Fits(Arguments))]_vars

\* "Dirty includes invalid and currently omitted edits, so navigating away never silently
\* loses an unfinished draft" (model.go:196): as long as the form does not say it is
\* dirty, its arguments and all its drafts, shown and hidden, are those it started with.
DirtyTold ==
    ~dirty /\ ~panicked =>
        /\ Arguments = loaded
        /\ fields = [name \in Names |-> NewField(name)] /\ extra = Empty

\* "Preserve an omitted field's hidden draft during JSON conversion" (model.go:140): no
\* conversion loses a draft. Does not hold: the item in focus is not reset when the
\* arguments are shown as a form again, and one that is gone by then is looked up
\* (activeEditor), which ends the workspace and every draft in it.
DraftOutlivesConversion == ~panicked
=============================================================================
