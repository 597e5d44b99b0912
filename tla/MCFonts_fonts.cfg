CONSTANTS
    ann = ann
    bob = bob
    Users = {ann, bob}
    Families = {serif, sans, mono, hand}
    Handlers = {h1, h2}
    cMaxFontsPerAccount = 2
    FamiliesOf <- AnnUploads
    MaxFonts = 4
    NoOne = NoOne
SPECIFICATION Spec
SYMMETRY Symmetry
INVARIANTS FontsLast FamiliesLast LibraryBounded StylesComplete
