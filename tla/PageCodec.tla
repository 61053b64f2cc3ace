------------------------------- MODULE PageCodec -------------------------------
(***************************************************************************)
(* The representation of a table in egtb.c: from a distance to mate to its *)
(* stored half distance, from a position and a side to a page and a place  *)
(* in it, and from a page to the stream of bytes that is compressed into   *)
(* the file.  Of the three versions of the file, the first holds both      *)
(* sides in one page and the other two have pages for each side; the       *)
(* first two have a byte per value, the last escapes to two more bytes.    *)
(* The Zstandard layer is taken as exact.  A checksum of values is the     *)
(* values themselves, and the exclusive or of the sums of a page's places  *)
(* is the symmetric difference of their sets.                              *)
(***************************************************************************)
EXTENDS Integers, FiniteSets, Sequences, FiniteSetsExt, SequencesExt

CONSTANTS MaxIndex,      \* the last position of the table
          PageEntries,   \* entries_per_page
          Values,        \* the distances a program stores
          Streams,       \* what a damaged block may read as
          MaxStores      \* bound: the values stored before a flush

VARIABLES version,     \* the format of the file
          pages,       \* the pages in memory, in stored codes
          sums,        \* their checksums, kept as the values change
          blocks,      \* the pages in the file, NoBlock: all draws
          reader,      \* "writing", "written", or what came of reading it back
          stored       \* history: the values the program stored

codecVars == <<version, pages, sums, blocks, reader, stored>>

NoBlock == [stream |-> <<>>, crc |-> <<>>]

Versions == {"paired", "planar", "wide"}
Planar == version # "paired"
Wide == version = "wide"

Index == 0 .. MaxIndex
PlayerSides == {0, 1}     \* EGTB_WHITE_TO_MOVE, EGTB_BLACK_TO_MOVE

-------------------------------------------------------------------------------
(* egtb_encode_dtm and egtb_decode_dtm; NoCode: the value is refused. *)
DrawValue == -1
MaxWinDtm == 32765
MaxLossDtm == 32766
StoredDraw == -32768
NoCode == 40000

EncodeDtm(value) ==
  IF value = DrawValue THEN StoredDraw
  ELSE IF value > 0 /\ value <= MaxWinDtm /\ value % 2 # 0
  THEN (value + 1) \div 2
  ELSE IF value <= 0 /\ value >= -MaxLossDtm /\ value % 2 = 0
  THEN -((-value) \div 2) ELSE NoCode

DecodeDtm(code) ==
  IF code = StoredDraw THEN DrawValue
  ELSE IF code >= 1 THEN 2 * code - 1 ELSE 2 * code

ValidCode(code) ==
  LET limit == IF Wide THEN 16383 ELSE 127
  IN code = StoredDraw \/ code \in -limit .. limit

-------------------------------------------------------------------------------
(* split_storage_index: the page of a value and its place there. *)
SidePages == MaxIndex \div PageEntries + 1
Pages == 0 .. (IF Planar THEN 2 * SidePages ELSE SidePages) - 1
Codes == 1 .. (IF Planar THEN PageEntries ELSE 2 * PageEntries)

PageOf(index, side) ==
  (index \div PageEntries) + (IF Planar THEN side * SidePages ELSE 0)
PlaceOf(index, side) ==
  LET entry == index % PageEntries
  IN IF Planar THEN entry + 1 ELSE 2 * entry + side + 1

Get(memory, index, side) ==
  DecodeDtm(memory[PageOf(index, side)][PlaceOf(index, side)])

DrawPage == [i \in Codes |-> StoredDraw]

(* page_checksum: of the entries, which hold two codes in a paired page. *)
EntryOf(i) == IF Planar THEN i ELSE (i + 1) \div 2
EntryCodes(page, entry) == [i \in {j \in Codes : EntryOf(j) = entry} |-> page[i]]
EntrySum(page, entry) == {<<entry, EntryCodes(page, entry)>>}
PageSum(page) == UNION {EntrySum(page, EntryOf(i)) : i \in Codes}

SymmetricDifference(S, T) == (S \ T) \cup (T \ S)

-------------------------------------------------------------------------------
(* encode_page: 128 is a draw, 127 in a wide page an escape.               *)
Escape == 127
DrawByte == 128

(* Mutant: 127 is taken for an ordinary byte. *)
CodeBytes_WideByte(code) ==
  IF code = StoredDraw THEN <<DrawByte>>
  ELSE IF ~ Wide \/ code \in -127 .. 127 THEN <<code % 256>>
  ELSE <<Escape, code % 256, (code % 65536) \div 256>>

CodeBytes(code) ==
  IF code = StoredDraw THEN <<DrawByte>>
  ELSE IF ~ Wide \/ code \in -127 .. 126 THEN <<code % 256>>
  ELSE <<Escape, code % 256, (code % 65536) \div 256>>

EncodePage(page) ==
  LET stream == FoldLeft(LAMBDA bytes, code : bytes \o CodeBytes(code),
                         <<>>, page)
  IN [stream |-> stream, crc |-> IF Wide THEN page ELSE stream]

Signed(n, width) == IF n < width \div 2 THEN n ELSE n - width

(* How many bytes the first code of a stream takes. *)
CodeLength(bytes) == IF Wide /\ bytes[1] = Escape THEN 3 ELSE 1

(* The first code of a stream, or NoCode when it cannot be read. *)
FirstCode(bytes) ==
  IF bytes = <<>> THEN NoCode
  ELSE IF bytes[1] = DrawByte THEN StoredDraw
  ELSE IF CodeLength(bytes) = 1 THEN Signed(bytes[1], 256)
  ELSE IF Len(bytes) < 3 THEN NoCode
  ELSE LET code == Signed(bytes[2] + 256 * bytes[3], 65536)
       IN IF code = StoredDraw \/ code \in -127 .. 126 THEN NoCode ELSE code

NoPage == <<>>

(* decode_page: the codes, or NoPage. *)
RECURSIVE CodesOf(_, _)
CodesOf(bytes, count) ==
  IF count = 0 THEN [ok |-> bytes = <<>>, codes |-> <<>>]
  ELSE LET code == FirstCode(bytes)
       IN IF ~ ValidCode(code) THEN [ok |-> FALSE, codes |-> <<>>]
          ELSE LET rest == CodesOf(SubSeq(bytes, CodeLength(bytes) + 1,
                                          Len(bytes)), count - 1)
               IN [rest EXCEPT !.codes = <<code>> \o @]

DecodePage(block) ==
  LET read == CodesOf(block.stream, Cardinality(Codes))
  IN IF read.ok /\ block.crc = (IF Wide THEN read.codes ELSE block.stream)
     THEN read.codes ELSE NoPage

LoadPage(block) == IF block = NoBlock THEN DrawPage ELSE DecodePage(block)

-------------------------------------------------------------------------------
AllDraw == [x \in Index \X PlayerSides |-> DrawValue]
StoredSoFar == {x \in Index \X PlayerSides : stored[x] # DrawValue}

(* A new table of draws. *)
CodecInit ==
  /\ version \in Versions
  /\ pages = [p \in Pages |-> DrawPage]
  /\ sums = [p \in Pages |-> PageSum(DrawPage)]
  /\ blocks = [p \in Pages |-> NoBlock]
  /\ stored = AllDraw
  /\ reader = "writing"

(* egtb_set, which refuses a value that the file cannot represent. *)
Set(index, side, value) ==
  LET page == PageOf(index, side)
      place == PlaceOf(index, side)
      after == [pages[page] EXCEPT ![place] = EncodeDtm(value)]
      entry == EntryOf(place)
  IN /\ reader = "writing"
     /\ Cardinality(StoredSoFar) < MaxStores
     /\ ValidCode(EncodeDtm(value))
     /\ pages' = [pages EXCEPT ![page] = after]
     /\ sums' = [sums EXCEPT ![page] =
                   SymmetricDifference(
                     SymmetricDifference(@, EntrySum(pages[page], entry)),
                     EntrySum(after, entry))]
     /\ stored' = [stored EXCEPT ![<<index, side>>] = value]
     /\ UNCHANGED <<version, blocks, reader>>

(* flush_cache_entry and store_page for every page: a page whose sum is    *)
(* wrong is refused, and a page of draws gets no block.                    *)
Flush ==
  /\ reader = "writing"
  /\ \A p \in Pages : PageSum(pages[p]) = sums[p]
  /\ blocks' = [p \in Pages |-> IF pages[p] = DrawPage THEN NoBlock
                                ELSE EncodePage(pages[p])]
  /\ reader' = "written"
  /\ UNCHANGED <<version, pages, sums, stored>>

(* A block is damaged in the file; its checksum is not.  (Bound: in a      *)
(* table with one stored value.)                                           *)
Damage(p, stream) ==
  /\ reader = "written"
  /\ Cardinality(StoredSoFar) = 1
  /\ blocks[p] # NoBlock /\ blocks[p] = EncodePage(pages[p])
  /\ blocks' = [blocks EXCEPT ![p].stream = stream]
  /\ UNCHANGED <<version, pages, sums, reader, stored>>

(* Another process reads the table back. *)
Load ==
  /\ reader = "written"
  /\ IF \E p \in Pages : LoadPage(blocks[p]) = NoPage
     THEN reader' = "refused" /\ UNCHANGED pages
     ELSE /\ reader' = "read"
          /\ pages' = [p \in Pages |-> LoadPage(blocks[p])]
  /\ UNCHANGED <<version, sums, blocks, stored>>

CodecNext ==
  \/ \E index \in Index, s \in PlayerSides, value \in Values :
       Set(index, s, value)
  \/ Flush
  \/ \E p \in Pages, stream \in Streams : Damage(p, stream)
  \/ Load

CodecSpec == CodecInit /\ [][CodecNext]_codecVars

-------------------------------------------------------------------------------
(***************************************************************************)
(* The values a program stored are the values it reads, in memory and from *)
(* the file: no two of them share a place, no value is changed by its      *)
(* representation, a page that was only written by this code is never      *)
(* refused for its checksum or its bytes, and a stream that is not the one *)
(* that was written is refused unless it holds the same values.            *)
(***************************************************************************)
ReadsBack ==
  /\ reader \in {"writing", "read"} =>
       \A x \in Index \X PlayerSides : Get(pages, x[1], x[2]) = stored[x]
  /\ reader = "writing" => \A p \in Pages : PageSum(pages[p]) = sums[p]
  /\ (reader = "refused" =>
        \E p \in Pages : blocks[p] # NoBlock
                         /\ blocks[p] # EncodePage(pages[p]))
===============================================================================
