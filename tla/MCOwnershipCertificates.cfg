CONSTANTS
  Clients = {ana, bo}
  Pieces = {ring}
  Orders = {o1}
  Transfers = {t1}
  NoClient = NoClient
SPECIFICATION Spec
SYMMETRY Symmetry
INVARIANT
  CertificateAttestsOwner
