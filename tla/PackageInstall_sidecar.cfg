CONSTANTS
  q8 = q8
  f16 = f16
  weights8 = weights8
  weights16 = weights16
  sidecar = sidecar
  Packages = {q8, f16}
  FilesOf <- SharedSidecar
  Nobody = nobody
  Events = {"remove"}
SPECIFICATION Spec
INVARIANT SidecarKept
