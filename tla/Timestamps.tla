----------------------------- MODULE Timestamps -----------------------------
(***************************************************************************)
(* How the event builders get the stamp of a module's data: a filter       *)
(* (util/data_filter) names the bits of a word that must match and the     *)
(* ones that make up the value, an extractor looks for the word, at an     *)
(* index from either end or anywhere.  A 32 bit word is the set of the     *)
(* positions of its ones, here WordBits of them.                           *)
(***************************************************************************)
EXTENDS Integers, Sequences, FiniteSets, FiniteSetsExt, SequencesExt

CONSTANTS WordBits,     \* FilterSize, 32 in the code
          Patterns,     \* filter strings, the most significant bit first
          StampWords,   \* words of a module whose data is more than one word
          StampIndexes  \* wordIndex of the indexed extractor

VARIABLES
    stampFilter, stampMarker,   \* arguments of the extractor's constructor
    stampIndex,                 \* wordIndex, or Anywhere for TimestampFilterExtractor
    stampData,                  \* data of the call
    stamp, stamp2               \* what the extractors of the two builders return

stampVars == <<stampFilter, stampMarker, stampIndex, stampData, stamp, stamp2>>

Bits == 0 .. WordBits - 1
Anywhere == 1000
Value(bits) == MapThenSumSet(LAMBDA b : 2 ^ b, bits)

\* The last character is bit 0, bits without a character are ignored.
make_filter(pattern) ==
    LET filter == [i \in Bits |-> IF i < Len(pattern) THEN pattern[Len(pattern) - i] ELSE "X"]
    IN  [filter |-> filter,
         matchMask |-> {i \in Bits : filter[i] \in {"0", "1"}},
         matchValue |-> {i \in Bits : filter[i] = "1"}]

matches(f, word) == word \cap f.matchMask = f.matchValue

ShiftRight(word, n) == {b - n : b \in {c \in word : c >= n}}

\* The bits of w at the positions of m, next to each other
bit_gather(w, m) == {Cardinality({j \in m : j < b}) : b \in w \cap m}

trailing_zeroes(mask) == Min(mask)

\* The positions of a marker, the lowest of them, and whether there is a gap.
make_cache_entry(f, marker) ==
    LET mask == {i \in Bits : f.filter[i] = marker}
    IN  [extractMask |-> mask,
         extractShift |-> trailing_zeroes(mask),
         needGather |-> \E i, j \in mask : \E gap \in i .. j : gap \notin mask]

\* Mutant: a mask with gaps is shifted like one without.
Mutextract(cache, word) == ShiftRight(word \cap cache.extractMask, cache.extractShift)

extract(cache, word) ==
    LET shifted == ShiftRight(word \cap cache.extractMask, cache.extractShift)
    IN  IF cache.needGather
        THEN bit_gather(shifted, ShiftRight(cache.extractMask, cache.extractShift))
        ELSE shifted

\* make_filter_with_caches() has an entry for each letter.
MarkersOf(pattern) == ToSet(pattern) \ {"0", "1", "X"}

-----------------------------------------------------------------------------
(* The extractors                                                          *)

TimestampExtractionFailed == 2 ^ WordBits - 1
NoStamp == -1

\* event_builder::IndexedTimestampFilterExtractor
Indexed(f, cache, index, data) ==
    LET abs == IF index < 0 THEN Len(data) + index ELSE index
    IN  IF 0 <= abs /\ abs < Len(data) /\ matches(f, data[abs + 1])
        THEN Value(extract(cache, data[abs + 1])) ELSE TimestampExtractionFailed

\* event_builder2::IndexedTimestampFilterExtractor: the index wraps around in a
\* size_t, which is then past the end.
Huge == 1000
Indexed2(f, cache, index, data) ==
    LET idx == IF index < 0 THEN (Len(data) + index) % Huge ELSE index
    IN  IF idx < Len(data) /\ matches(f, data[idx + 1])
        THEN Value(extract(cache, data[idx + 1])) ELSE NoStamp

\* TimestampFilterExtractor: the first word that matches
FirstMatch(f, cache, data, failed) ==
    LET found == {k \in 1 .. Len(data) : matches(f, data[k])}
    IN  IF found = {} THEN failed
        ELSE Value(extract(cache, data[CHOOSE k \in found : \A j \in found : k <= j]))

StampsInit ==
    /\ stampFilter \in Patterns /\ stampMarker \in MarkersOf(stampFilter)
    /\ stampIndex \in StampIndexes \cup {Anywhere}
    /\ stampData = <<>> /\ stamp = TimestampExtractionFailed /\ stamp2 = NoStamp

\* operator() on the data of an event
Extract(data) ==
    LET f == make_filter(stampFilter)
        cache == make_cache_entry(f, stampMarker)
    IN  /\ stampData = <<>>
        /\ stampData' = data
        /\ stamp' = IF stampIndex = Anywhere
                    THEN FirstMatch(f, cache, data, TimestampExtractionFailed)
                    ELSE Indexed(f, cache, stampIndex, data)
        /\ stamp2' = IF stampIndex = Anywhere THEN FirstMatch(f, cache, data, NoStamp)
                     ELSE Indexed2(f, cache, stampIndex, data)
        /\ UNCHANGED <<stampFilter, stampMarker, stampIndex>>

StampsNext ==
    \/ \E word \in SUBSET Bits : Extract(<<word>>)
    \/ \E first, second \in StampWords : Extract(<<first, second>>)

-----------------------------------------------------------------------------
(* Properties                                                              *)

\* The filter string read from left to right: the word has its zeroes and ones,
\* and the bits under the marker, in this order, are the value.
BitAt(pattern, k, word) == Len(pattern) - k \in word
FitsPattern(pattern, word) ==
    \A k \in 1 .. Len(pattern) : /\ pattern[k] = "1" => BitAt(pattern, k, word)
                                 /\ pattern[k] = "0" => ~BitAt(pattern, k, word)
ReadPattern(pattern, marker, word) ==
    FoldLeft(LAMBDA v, k : IF pattern[k] # marker THEN v
                           ELSE 2 * v + (IF BitAt(pattern, k, word) THEN 1 ELSE 0),
             0, [k \in 1 .. Len(pattern) |-> k])

\* The word an extractor is to look at, 0 for none
WordLookedAt ==
    LET fitting == {k \in 1 .. Len(stampData) : FitsPattern(stampFilter, stampData[k])}
        k == IF stampIndex = Anywhere
             THEN IF fitting = {} THEN 0 ELSE CHOOSE j \in fitting : \A l \in fitting : j <= l
             ELSE IF stampIndex < 0 THEN Len(stampData) + stampIndex + 1 ELSE stampIndex + 1
    IN  IF k \in fitting THEN k ELSE 0

\* Masks, shift and gather of the filters give the stamp the filter string
\* describes, in data of any length and for indexes from both ends; the two
\* builders' extractors agree, and the value that means failure is not taken
\* for a stamp unless the filter has a marker for every bit.
StampAsDescribed ==
    stampData # <<>> =>
        LET k == WordLookedAt
            value == ReadPattern(stampFilter, stampMarker, stampData[k])
        IN  /\ IF k = 0 THEN stamp = TimestampExtractionFailed /\ stamp2 = NoStamp
                        ELSE stamp = value /\ stamp2 = value
            /\ stamp = TimestampExtractionFailed /\ stamp2 # NoStamp
                 => \A j \in 1 .. WordBits : stampFilter[j] = stampMarker
=============================================================================
