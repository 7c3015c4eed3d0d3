\* Two workers, two devices, an HSS that answers with the whole profile.
SPECIFICATION ServiceSpec
CONSTANTS
    sip = sip  tel = tel  u1 = u1  u2 = u2  u3 = u3  phone = phone  line1 = line1  a = a  b = b
    None = None
    Wildcard = Wildcard
    Impu = {sip, tel}
    Uri = {u1, u2, u3}
    InstanceId = {phone}
    RegId = {line1}
    CallId = {a, b}
    Worker = {w1, w2}
    Request <- DeviceRequests
    DefaultExpires = 2
    Profiles <- OneProfile
    HssMayFail = FALSE
INVARIANT ImplicitSetConsistent
PROPERTY NoCollateralLoss
