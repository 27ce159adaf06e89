---------------------------- MODULE MultiHandle ----------------------------
(* Writing multi-field GRIB messages: grib_multi_handle_append of
   grib_handle.cc. The buffer of the multi-field handle holds complete
   messages one after the other. A field is appended either as a whole
   message, or from one of its sections on, over the 7777 of the last message,
   whose length is then encoded again.

   Where a section starts is asked of the handle by a name that is set when the
   section is decoded (section_offset). Of a handle that never had the section
   there is no name; of one that lost it (deleteLocalDefinition) there is a
   name and no such key: the offset is 0, and the error is not looked at.

   Octets are not kept, positions are: at is the octet a message starts at,
   offset and length are those of the handle, and the position handed to
   grib_encode_unsigned_long is in bits. *)
EXTENDS Naturals, Sequences, FiniteSets, SequencesExt

CONSTANTS
    Handles,    \* the fields, each the sequence of its sections 1..7
    Starts,     \* the start sections the program passes
    MaxFields   \* bound: fields appended

VARIABLES
    messages,   \* the buffer: [at, sections, copied, declared] per message, copied
                \* the octets in it that follow no section's end
    ulength,    \* octets used in the buffer
    offset,     \* octet at which the last message starts
    length,     \* its length
    spoiled,    \* octets of the buffer a length was written over by mistake
    crashed,    \* a null name was followed
    fields      \* history: the sections each appended field should have

mhVars == <<messages, ulength, offset, length, spoiled, crashed, fields>>

Total(lens) == FoldLeft(LAMBDA a, n : a + n, 0, lens)

Lens(secs) == Total([i \in DOMAIN secs |-> secs[i].len])

Size(secs) == 16 + Lens(secs) + 4

\* The octets a message of the buffer takes.
Room(m) == Size(m.sections) + m.copied

HasSection(h, n) == \E i \in DOMAIN h : h[i].num = n

PlaceOf(h, n) == CHOOSE i \in DOMAIN h : h[i].num = n

\* grib_get_partial_message: from the offset of that section to the end; the
\* 7777 is behind.
Partial(h, start) == SubSeq(h, PlaceOf(h, start), Len(h))

\* What a reader is to find: the sections of h from start on, and before
\* them those of the field before.
FieldOf(before, h, start) ==
    LET kept == {n \in DOMAIN before : n < start}
        new  == {n \in {h[i].num : i \in DOMAIN h} : n >= start}
    IN  [n \in kept \cup new |-> IF n \in new THEN h[PlaceOf(h, n)].id ELSE before[n]]

NoField == [n \in {} |-> 0]

WholeMessage(start) == start = 0 \/ ulength = 0

AppendWhole(h, start) ==
    /\ Len(fields) < MaxFields
    /\ WholeMessage(start)
    /\ messages' = Append(messages, [at |-> ulength, sections |-> h, copied |-> 0, declared |-> Size(h)])
    /\ offset' = ulength
    /\ length' = Size(h)
    /\ ulength' = ulength + Size(h)
    /\ fields' = Append(fields, FieldOf(NoField, h, 0))
    /\ UNCHANGED <<spoiled, crashed>>

\* The bit at which the new length is encoded.
LengthPosition == offset + 64

\* The octets a 64 bit value at bit p touches.
Octets(p) == (p \div 8)..((p + 63) \div 8)

GrownBy(added) == length + added - 4

\* The last message becomes m, by that many octets written over its 7777.
Extend(m, added) ==
    LET grown  == GrownBy(added)
        placed == LengthPosition = 8 * m.at + 64
    IN  /\ length' = grown
        /\ ulength' = ulength + added - 4
        /\ messages' = [messages EXCEPT ![Len(messages)] =
                           [m EXCEPT !.declared = IF placed THEN grown ELSE m.declared]]
        /\ spoiled' = IF placed THEN spoiled ELSE spoiled \cup Octets(LengthPosition)
        /\ UNCHANGED offset

AppendPartial(h, start) ==
    LET m    == messages[Len(messages)]
        part == Partial(h, start)
    IN  /\ Len(fields) < MaxFields
        /\ ~WholeMessage(start)
        /\ HasSection(h, start)
        /\ Extend([m EXCEPT !.sections = m.sections \o part], Lens(part) + 4)
        /\ fields' = Append(fields, FieldOf(fields[Len(fields)], h, start))
        /\ UNCHANGED crashed

\* The handle has no such section, which is no error as long as it could have
\* one: its offset is 0, and the whole message is copied, section 0 first.
\* Bound: once per message of the buffer.
AppendFromStart(h, start) ==
    LET m == messages[Len(messages)]
    IN  /\ Len(fields) < MaxFields
        /\ ~WholeMessage(start)
        /\ ~HasSection(h, start)
        /\ m.copied = 0
        /\ Extend([m EXCEPT !.copied = Size(h) - 4], Size(h))
        /\ UNCHANGED <<crashed, fields>>

\* The same where the section was never there: grib_get_long is given no name.
AppendCrashes(h, start) ==
    /\ ~WholeMessage(start)
    /\ ~HasSection(h, start)
    /\ crashed' = TRUE
    /\ UNCHANGED <<messages, ulength, offset, length, spoiled, fields>>

\* grib_multi_handle_delete and _new.
Renew ==
    /\ messages' = <<>>
    /\ ulength' = 0 /\ offset' = 0 /\ length' = 0
    /\ spoiled' = {}
    /\ fields' = <<>>
    /\ UNCHANGED crashed

Init ==
    /\ messages = <<>>
    /\ ulength = 0 /\ offset = 0 /\ length = 0
    /\ spoiled = {}
    /\ crashed = FALSE
    /\ fields = <<>>

Next ==
    /\ ~crashed
    /\ \/ \E h \in Handles, start \in Starts :
             \/ AppendWhole(h, start)
             \/ AppendPartial(h, start)
             \/ AppendFromStart(h, start)
             \/ AppendCrashes(h, start)
       \/ Renew

Spec == Init /\ [][Next]_mhVars

-----------------------------------------------------------------------------

(* The messages tile the buffer, and the handle describes the last one. *)
Tiled ==
    /\ ulength = Total([i \in DOMAIN messages |-> Room(messages[i])])
    /\ \A i \in DOMAIN messages : i < Len(messages) =>
          messages[i + 1].at = messages[i].at + Room(messages[i])
    /\ messages # <<>> => /\ offset = messages[Len(messages)].at
                          /\ length = Room(messages[Len(messages)])

(* Appending sections "at the end of the multi-field handle" leaves it a
   sequence of messages: each declares the length it has, nothing but sections
   is in it, and no octet of an earlier one was overwritten. *)
Intact ==
    /\ spoiled = {}
    /\ \A i \in DOMAIN messages : /\ messages[i].copied = 0
                                  /\ messages[i].declared = Room(messages[i])
=============================================================================
