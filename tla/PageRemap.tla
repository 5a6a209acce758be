------------------------------- MODULE PageRemap -------------------------------
(***************************************************************************)
(* The arithmetic of remap_permissions: which pages one mprotect call      *)
(* reaches, and which pages the body of a routine lies on. No state.       *)
(***************************************************************************)
EXTENDS Integers

CONSTANTS PageSize    \* sysconf(_SC_PAGE_SIZE)

ASSUME PageSizeAssumption == PageSize \in Nat \ {0}

MAGIC_OFFSET == 14

\* addr & ~(page_size - 1), page_size being a power of two
Align(addr) == addr - (addr % PageSize)

\* Faulty variant: the length remap_permissions_text computes.
RemapLengthText(addr, size) == Align(addr + size) - Align(addr)

\* What one call of remap_permissions(addr, size, perm) hands to mprotect.
RemapBase(addr) == Align(addr)
RemapLength(addr, size) == PageSize + (Align(addr + size) - Align(addr))

PageOf(addr) == addr \div PageSize

\* The pages mprotect changes: all that hold a byte of the range.
RemapPages(addr, size) ==
    PageOf(RemapBase(addr)) .. PageOf(RemapBase(addr) + RemapLength(addr, size) - 1)

\* The bytes memcpy and memset touch: size_cp of them, past the probe.
BodyFirst(addr) == addr + MAGIC_OFFSET
BodyLast(addr, size_cp) == addr + MAGIC_OFFSET + size_cp - 1
BodyPages(addr, size_cp) == PageOf(BodyFirst(addr)) .. PageOf(BodyLast(addr, size_cp))

\* size_cp as image_load computes it from RTN_Size
SizeCp(size) == size - MAGIC_OFFSET
--------------------------------------------------------------------------------
\* image_load opens from addr over RTN_Size bytes: whatever the layout, it
\* reaches every page of the body it blanks.
LoadRemapCovers(addr, size) ==
    SizeCp(size) >= 1 => BodyPages(addr, SizeCp(size)) \subseteq RemapPages(addr, size)

\* The body ends MAGIC_OFFSET bytes behind addr + size_cp. The handlers open
\* from addr over size_cp bytes: that reaches every page of the body unless those
\* last bytes cross a page end.
TailCrosses(addr, size_cp) == ((addr + size_cp) % PageSize) + MAGIC_OFFSET > PageSize

AuxRemapCovers(addr, size_cp) ==
    size_cp >= 1 => (BodyPages(addr, size_cp) \subseteq RemapPages(addr, size_cp)
                        <=> ~TailCrosses(addr, size_cp))
================================================================================
