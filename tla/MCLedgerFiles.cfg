\* Three programs in two directories: two share a ledger, a third has it linked into its own.
\* Four files: each directory's ledger and lock, or two generations of one of them.
CONSTANTS
  Processes = {p1, p2, p3}
  Dirs = {d1, d2}
  Files = {f1, f2, f3, f4}
  None = None
  Symlink = Symlink
SYMMETRY Symmetry
SPECIFICATION Spec
INVARIANTS TypeOK OneWriter OwnLedgerOnly
