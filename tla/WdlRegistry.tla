---------------------------- MODULE WdlRegistry ----------------------------
(***************************************************************************)
(* The registry of tables that a game program probes (gwdegtb.c): images   *)
(* of compressed tables and unpacked tables that it attaches for every     *)
(* material, distance tables that are opened by their first lookup, and    *)
(* the probes, one for each thread, that keep pages of attached images.    *)
(* A page in a probe is known by the address of the image's handle, which  *)
(* the allocator may use again once the handle is destroyed.               *)
(*                                                                         *)
(* The caller keeps to gwdegtb.h: compressed images are unloaded while     *)
(* there is no probe, and distance tables are looked up by one thread.     *)
(* Nothing forbids it to attach another image while there are probes, and  *)
(* the code does not look for them.  A lookup is one step: one that was    *)
(* still running while its image is replaced would use a destroyed handle. *)
(***************************************************************************)
EXTENDS Naturals, FiniteSets, FiniteSetsExt

CONSTANTS Thread,
          Material,
          Hash,        \* material -> material_id * 0x9e3779b97f4a7c15
          PagesOf,     \* material -> the pages its tables have
          Image,       \* image -> its material and the pages that are damaged
          Address,     \* where handles of images may be allocated
          CacheSizes,  \* the entries that cache_bytes has room for
          Versions,    \* of a distance table
          NoTable      \* no image, address or table

ASSUME RegistryAssumption ==
  /\ Hash \in [Material -> Nat] /\ PagesOf \in [Material -> Nat \ {0}]
  /\ CacheSizes \subseteq Nat \ {0}
  /\ \A i \in DOMAIN Image : Image[i].material \in Material
  /\ NoTable \notin Address /\ NoTable \notin DOMAIN Image

VARIABLES
  resident,   \* material -> the image whose unpacked pages are attached
  compressed, \* material -> the address of the handle
  heap,       \* address -> the image of the handle there, if any
  probe,      \* thread -> the entries of its probe; none if there is no probe
  files,      \* material -> the distance table on disk
  opened,       \* material -> the distance table that is open
  attempted,  \* the materials whose opening has been tried
  answer,     \* the last lookup that was answered
  held,       \* history: thread -> the handles there were since its probe was created
  attached,   \* history: thread -> images attached since then; 2 is two or more
  found       \* history: material -> the table that its first lookup found on disk

probeVars == <<compressed, heap, probe, held, attached>>
dtmVars == <<files, opened, attempted, found>>
registryVars == <<resident, probeVars, dtmVars, answer>>

NoProbe == << >>
NoAnswer == [tier |-> "none"]

(* Nothing is attached; files is what there is on disk. *)
RegistryFrom(a) ==
  /\ resident = [m \in Material |-> NoTable]
  /\ compressed = [m \in Material |-> NoTable]
  /\ heap = [x \in Address |-> NoTable]
  /\ probe = [t \in Thread |-> NoProbe]
  /\ files = [m \in Material |-> NoTable]
  /\ opened = files
  /\ attempted = {}
  /\ answer = a
  /\ held = [t \in Thread |-> {}] /\ attached = [t \in Thread |-> 0]
  /\ found = files

RegistryInit == RegistryFrom(NoAnswer)

NoProbes == \A t \in Thread : probe[t] = NoProbe

-----------------------------------------------------------------------------
(* gwdegtb_wdl_decompress, which refuses a damaged image, and              *)
(* gwdegtb_wdl_attach; no lookup is in progress.                           *)
AttachResident(i) ==
  /\ Image[i].damaged = {}
  /\ resident' = [resident EXCEPT ![Image[i].material] = i]
  /\ answer' = NoAnswer
  /\ UNCHANGED <<probeVars, dtmVars>>

UnloadResident ==
  /\ resident' = [m \in Material |-> NoTable]
  /\ answer' = NoAnswer
  /\ UNCHANGED <<probeVars, dtmVars>>

Handle(x, i) == [at |-> x, image |-> i]
ImagesAt(x, handles) == {h.image : h \in {g \in handles : g.at = x}}

Handles == {Handle(x, heap[x]) : x \in {y \in Address : heap[y] # NoTable}}

(* gwdegtb_wdl_compressed_attach: the new handle is allocated before the   *)
(* old one is destroyed.  Page damage is not noticed.                      *)
Attach(i, x) ==
  LET m == Image[i].material
      old == compressed[m] IN
  /\ heap' = [y \in Address |-> IF y = x THEN i ELSE IF y = old THEN NoTable ELSE heap[y]]
  /\ compressed' = [compressed EXCEPT ![m] = x]
  /\ held' = [t \in Thread |->
               IF probe[t] = NoProbe THEN {} ELSE held[t] \cup {Handle(x, i)}]
  /\ attached' = [t \in Thread |-> IF probe[t] = NoProbe THEN 0
                                  ELSE IF attached[t] = 0 THEN 1 ELSE 2]
  /\ answer' = NoAnswer
  /\ UNCHANGED <<resident, probe, dtmVars>>

(* Mutant: the old handle is destroyed first.                              *)
AttachCompressed_DestroyFirst(i) ==
  \E x \in Address :
    /\ heap[x] = NoTable \/ x = compressed[Image[i].material]
    /\ Attach(i, x)

AttachCompressed(i) ==
  \E x \in Address : heap[x] = NoTable /\ Attach(i, x)

UnloadCompressed ==
  /\ NoProbes
  /\ compressed' = [m \in Material |-> NoTable]
  /\ heap' = [x \in Address |-> NoTable]
  /\ answer' = NoAnswer
  /\ UNCHANGED <<resident, probe, held, attached, dtmVars>>

(* The largest power of two that the cache has room for. *)
Capacity(requested) == Max({k \in {1, 2, 4, 8} : k <= requested})

EmptyEntry == [database |-> NoTable, page |-> NoTable, data |-> NoTable]

CreateProbe(t, requested) ==
  /\ probe[t] = NoProbe
  /\ probe' = [probe EXCEPT ![t] = [s \in 0 .. Capacity(requested) - 1 |-> EmptyEntry]]
  /\ held' = [held EXCEPT ![t] = Handles] /\ attached' = [attached EXCEPT ![t] = 0]
  /\ answer' = NoAnswer
  /\ UNCHANGED <<resident, compressed, heap, dtmVars>>

DestroyProbe(t) ==
  /\ probe[t] # NoProbe
  /\ probe' = [probe EXCEPT ![t] = NoProbe]
  /\ held' = [held EXCEPT ![t] = {}] /\ attached' = [attached EXCEPT ![t] = 0]
  /\ answer' = NoAnswer
  /\ UNCHANGED <<resident, compressed, heap, dtmVars>>

-----------------------------------------------------------------------------
LookupResident(m, page) ==
  /\ resident[m] # NoTable
  /\ answer' = [tier |-> "resident", material |-> m, page |-> page,
                data |-> <<resident[m], page>>]
  /\ UNCHANGED <<resident, probeVars, dtmVars>>

(* compressed_cache_index, of as many entries as the probe has.            *)
Slot(t, m, page) == (Hash[m] + page) % Cardinality(DOMAIN probe[t])

Hits(t, m, page) ==
  LET e == probe[t][Slot(t, m, page)] IN e.database = compressed[m] /\ e.page = page

(* load_compressed_cache_page: the entry stays without an image when the   *)
(* page cannot be decompressed or validated, whatever its buffer has now.  *)
Load(m, page, e) ==
  LET i == heap[compressed[m]] IN
  IF page \in Image[i].damaged
    THEN [e EXCEPT !.database = NoTable, !.data = <<"damaged", page>>]
    ELSE [database |-> compressed[m], page |-> page, data |-> <<i, page>>]

LookupProbe(t, m, page) ==
  LET slot == Slot(t, m, page)
      e == IF Hits(t, m, page) THEN probe[t][slot] ELSE Load(m, page, probe[t][slot]) IN
  /\ probe[t] # NoProbe /\ compressed[m] # NoTable
  /\ probe' = [probe EXCEPT ![t][slot] = e]
  /\ answer' = IF e.database = NoTable THEN NoAnswer
               ELSE [tier |-> "compressed", thread |-> t, material |-> m, page |-> page, data |-> e.data]
  /\ UNCHANGED <<resident, compressed, heap, held, attached, dtmVars>>

(* gwdegtb_dtm_lookup_compact: the first lookup of a material opens its    *)
(* table; one that could not be opened is not tried again.                 *)
LookupDtm(m) ==
  /\ opened' = IF opened[m] = NoTable /\ m \notin attempted THEN [opened EXCEPT ![m] = files[m]] ELSE opened
  /\ attempted' = IF opened[m] = NoTable THEN attempted \cup {m} ELSE attempted
  /\ found' = IF m \in attempted THEN found ELSE [found EXCEPT ![m] = files[m]]
  /\ answer' = IF opened'[m] = NoTable THEN NoAnswer
               ELSE [tier |-> "disk", material |-> m, data |-> opened'[m]]
  /\ UNCHANGED <<resident, probeVars, files>>

CloseAll ==
  /\ opened' = [m \in Material |-> NoTable]
  /\ attempted' = {}
  /\ found' = opened'
  /\ answer' = NoAnswer
  /\ UNCHANGED <<resident, probeVars, files>>

(* Another process publishes a distance table. *)
PublishDtm(m) ==
  /\ \E v \in Versions : v # files[m] /\ files' = [files EXCEPT ![m] = v]
  /\ answer' = NoAnswer
  /\ UNCHANGED <<resident, probeVars, opened, attempted, found>>

ProbesNext ==
  \/ UnloadCompressed
  \/ \E i \in DOMAIN Image : AttachCompressed(i)
  \/ \E t \in Thread :
       \/ DestroyProbe(t)
       \/ \E n \in CacheSizes : CreateProbe(t, n)
       \/ \E m \in Material : \E page \in 0 .. PagesOf[m] - 1 : LookupProbe(t, m, page)

(* What has to do with neither probes nor compressed images. *)
TablesNext ==
  \/ UnloadResident \/ CloseAll
  \/ \E i \in DOMAIN Image : AttachResident(i)
  \/ \E m \in Material :
       \/ LookupDtm(m) \/ PublishDtm(m)
       \/ \E page \in 0 .. PagesOf[m] - 1 : LookupResident(m, page)

RegistryNext == ProbesNext \/ TablesNext

RegistrySpec == RegistryInit /\ [][RegistryNext]_registryVars

-----------------------------------------------------------------------------
(***************************************************************************)
(* Properties.                                                             *)
(***************************************************************************)

(* A probe answers with the page that was asked for, undamaged, of the     *)
(* image that is attached for the material now, whatever its entries held  *)
(* before, which images were replaced and which loads failed; unless the   *)
(* allocator gave the address of that handle twice while the probe lived,  *)
(* for which two images must have been attached meanwhile: then it may be  *)
(* the page of an image that was there before, even of another material.   *)
(* Unpacked tables answer from the image attached last, and distance       *)
(* tables, until all are closed, from the file that was there when the     *)
(* material was looked up first.                                           *)
LookupIsRight ==
  /\ answer.tier = "compressed" =>
       LET seen == ImagesAt(compressed[answer.material], held[answer.thread]) IN
       /\ heap[compressed[answer.material]] \in seen
       /\ attached[answer.thread] < 2 =>
            answer.data = <<heap[compressed[answer.material]], answer.page>>
       /\ \E i \in seen :
            answer.page \notin Image[i].damaged /\ answer.data = <<i, answer.page>>
  /\ answer.tier = "resident" =>
       LET i == resident[answer.material] IN
       /\ Image[i].damaged = {} /\ Image[i].material = answer.material
       /\ answer.data = <<i, answer.page>>
  /\ answer.tier = "disk" => answer.data = found[answer.material]

-----------------------------------------------------------------------------
(***************************************************************************)
(* Why: every page in a probe is of an image whose handle was at that      *)
(* address since the probe was created, since handles are unloaded only    *)
(* while there is no probe; every handle there is now is one of those.     *)
(* With at most one image attached since then no address has had two,      *)
(* because the new handle is allocated while the old one is there.         *)
(***************************************************************************)
HandlesInv ==
  /\ compressed \in [Material -> Address \cup {NoTable}]
  /\ heap \in [Address -> DOMAIN Image \cup {NoTable}]
  /\ \A m \in Material : compressed[m] # NoTable =>
       heap[compressed[m]] # NoTable /\ Image[heap[compressed[m]]].material = m

EntryIsRight(e, handles) ==
  /\ e = [database |-> e.database, page |-> e.page, data |-> e.data]
  /\ e.database # NoTable =>
       \E i \in ImagesAt(e.database, handles) :
         e.page \notin Image[i].damaged /\ e.data = <<i, e.page>>

EntriesAreRight(entries, handles) ==
  \E k \in {1, 2, 4, 8} :
    /\ entries = [s \in 0 .. k - 1 |-> entries[s]]
    /\ \A s \in 0 .. k - 1 : EntryIsRight(entries[s], handles)

ProbesInv ==
  /\ DOMAIN probe = Thread /\ DOMAIN held = Thread
  /\ \A t \in Thread : probe[t] # NoProbe =>
       Handles \subseteq held[t] /\ EntriesAreRight(probe[t], held[t])

(* What is known of the handles a probe has met. *)
HistoryInv ==
  /\ DOMAIN attached = Thread
  /\ \A t \in Thread : probe[t] # NoProbe =>
       /\ attached[t] = 0 => held[t] = Handles
       /\ attached[t] < 2 => \A g, h \in held[t] : g.at = h.at => g = h

ResidentInv ==
  /\ resident \in [Material -> DOMAIN Image \cup {NoTable}]
  /\ \A m \in Material : resident[m] # NoTable =>
       Image[resident[m]].damaged = {} /\ Image[resident[m]].material = m

(* A table that is open was there at the first lookup.                     *)
DtmInv ==
  /\ DOMAIN opened = Material /\ DOMAIN files = Material /\ DOMAIN found = Material
  /\ \A m \in Material :
       /\ opened[m] # NoTable => m \in attempted
       /\ m \in attempted => opened[m] = found[m]

RegistryInv == HandlesInv /\ ProbesInv /\ HistoryInv /\ ResidentInv /\ DtmInv /\ LookupIsRight

=============================================================================
