------------------------------- MODULE Paging -------------------------------
(***************************************************************************)
(* vmm::Page and vmm::PageEntry (src/vmm/paging.cpp).  Physical memory is  *)
(* a function from frames to their content; a Page, used for directories   *)
(* and for tables alike, is a function from indices to entries.  Virtual   *)
(* addresses are virtual page numbers.  ENTRIES is 1024 in the kernel.     *)
(***************************************************************************)
EXTENDS Naturals

CONSTANT ENTRIES

ASSUME EntriesAssumption == ENTRIES \in Nat \ {0} /\ ENTRIES % 4 = 0

Index == 0 .. (ENTRIES - 1)

\* The flags the kernel uses: absent, supervisor (0x3) and user (0x7).
Flags == {0, 3, 7}

\* Mutant: the lowest flag is masked off with the offset of the address.
PageEntry_Masked(frame, flags) == [frame |-> frame, flags |-> 2 * (flags \div 2)]

PageEntry(frame, flags) == [frame |-> frame, flags |-> flags]

Absent == PageEntry(0, 0)

\* "value() & 0x1"
present(entry) == entry.flags % 2 = 1

\* The first virtual page of the higher half, and the page P2V gives frame f.
HIGHER_HALF == 3 * (ENTRIES \div 4) * ENTRIES
P2VPage(f) == HIGHER_HALF + f

\* What a frame holds: a Page, or data of some kind.
NoData == <<>>
ZeroPage == [i \in Index |-> Absent]
PageContent(p) == [page |-> p, data |-> NoData]
DataContent(d) == [page |-> ZeroPage, data |-> d]

\* The walk of the CPU: the frame that directory dir maps v to, if any.
Walk(mem, dir, v) ==
    LET pde == mem[dir].page[v \div ENTRIES]
        pte == mem[pde.frame].page[v % ENTRIES]
    IN  {f \in {pte.frame} : present(pde) /\ present(pte)}

\* The indices map_page shifts out of an address.
pd_idx(v) == (v \div ENTRIES) % ENTRIES
pt_idx(v) == v % ENTRIES

HasTable(mem, dir, v) == present(mem[dir].page[pd_idx(v)])

\* map_page without a table: frame f becomes one, cleared, for user and kernel.
WithTable(mem, dir, v, f) ==
    [mem EXCEPT ![f] = PageContent(ZeroPage),
                ![dir].page[pd_idx(v)] = PageEntry(f, 7)]

\* map_page once the table is there.
WithPage(mem, dir, phys, v, flags) ==
    LET table == mem[dir].page[pd_idx(v)].frame
    IN  [mem EXCEPT ![table].page[pt_idx(v)] = PageEntry(phys, flags)]
=============================================================================
